---- MODULE Spec2Model ----
(***************************************************************************)
(* Model of the Jira -> GitHub issue importer (src/main.py, src/project.py, *)
(* src/importer.py, src/utils.py, src/labelcolourselector.py).              *)
(*                                                                         *)
(* One run of main.py: the items of the XML export are added to the        *)
(* Project accumulator (add_item), then import_milestones, import_labels   *)
(* (only when the start offset is 0) and import_issues run in sequence.    *)
(* Every blocking HTTP call of import_issues is split in two steps: the    *)
(* request together with the target's answer, and the code that examines   *)
(* the answer.                                                             *)
(*                                                                         *)
(* Texts (issue bodies, comment bodies) are modelled by the Jira key       *)
(* tokens they hold, the only part of a text the importer ever inspects:   *)
(*   bare : keys written as PROJECT-n outside any browse URL               *)
(*   urls : keys inside a browse URL the redirection rewrite may replace   *)
(*   kept : keys inside a browse URL of an 'original-jira-link' anchor     *)
(***************************************************************************)
EXTENDS Integers, Sequences, FiniteSets, TLC

\* ------------------------------------------------------------------ bounds
MaxIssues == 3      \* items read from the export in one run
MaxPolls  == 2      \* the ghost counter of consecutive 404 answers saturates here

\* ------------------------------------------------------------- small helpers
Range(s) == {s[i] : i \in DOMAIN s}

RECURSIVE SetToSeq(_)
SetToSeq(S) == IF S = {} THEN <<>>
               ELSE LET x == CHOOSE y \in S : TRUE IN <<x>> \o SetToSeq(S \ {x})

RECURSIVE FlattenSets(_)
FlattenSets(ss) == IF ss = <<>> THEN {} ELSE Head(ss) \cup FlattenSets(Tail(ss))

\* -------------------------------------------------------------- the export
\* main.py:13 the configured Jira project name
ProjectName == "INFRA"

\* item.key.text.split('-')[0] on the keys of the model
ProjectOfKey(key) == IF key = "OTHER-1" THEN "OTHER" ELSE "INFRA"

NoText == [bare |-> {}, urls |-> {}, kept |-> {}]

\* A source label longer than the 50 characters kept by project.py:150
LongLabel == "area:continuous-integration-and-delivery-infrastructure"

\* The items an export may hold. description and comments give the key
\* tokens of the rendered text; issuelinks is the sequence of the
\* <issuelinktype> elements, each with its <outwardlinks> and <inwardlinks>
\* elements (<<>> when the element is absent); epic is "" when the item has
\* no epic-link custom field; fixVersion, priority and resolution are ""
\* when the element is absent; absent names the other elements the item
\* lacks; statusCategory is the id attribute of the element.
Items ==
  { [key |-> "INFRA-1", statusCategory |-> "3", type |-> "Bug", fixVersion |-> "1.0",
     component |-> <<"core">>, labels |-> <<>>,
     priority |-> "", resolution |-> "Fixed",
     description |-> [bare |-> {}, urls |-> {}, kept |-> {}],
     comments |-> <<>>,
     issuelinks |-> <<[outwardlinks |-> <<[description |-> "blocks",
                                           issuekeys |-> <<"INFRA-2">>]>>,
                       inwardlinks |-> <<>>]>>,
     epic |-> "", watches |-> 2, votes |-> 0, absent |-> {}],
    [key |-> "INFRA-2", statusCategory |-> "4", type |-> "Epic", fixVersion |-> "",
     component |-> <<"core">>, labels |-> <<"Bug", "priority:major", LongLabel, "needs-triage">>,
     priority |-> "Major", resolution |-> "",
     description |-> [bare |-> {"INFRA-9"}, urls |-> {"INFRA-3"}, kept |-> {}],
     comments |-> <<[bare |-> {"INFRA-1"}, urls |-> {}, kept |-> {}]>>,
     issuelinks |-> <<>>,
     epic |-> "", watches |-> 0, votes |-> 1, absent |-> {}],
    [key |-> "INFRA-3", statusCategory |-> "2", type |-> "Task", fixVersion |-> "2.0",
     component |-> <<"jira-type:epic">>, labels |-> <<>>,
     priority |-> "", resolution |-> "",
     description |-> [bare |-> {}, urls |-> {}, kept |-> {}],
     comments |-> <<>>,
     issuelinks |-> <<[outwardlinks |-> <<>>,
                       inwardlinks |-> <<[description |-> "is duplicated by",
                                          issuekeys |-> <<"INFRA-2">>]>>],
                      [outwardlinks |-> <<[description |-> "relates to",
                                           issuekeys |-> <<"INFRA-1">>]>>,
                       inwardlinks |-> <<>>]>>,
     epic |-> "INFRA-2", watches |-> 0, votes |-> 0,
     absent |-> {"environment", "attachments"}],
    [key |-> "OTHER-1", statusCategory |-> "3", type |-> "Bug", fixVersion |-> "",
     component |-> <<"core">>, labels |-> <<>>,
     priority |-> "", resolution |-> "",
     description |-> [bare |-> {"INFRA-1"}, urls |-> {}, kept |-> {}],
     comments |-> <<>>,
     issuelinks |-> <<>>,
     epic |-> "", watches |-> 0, votes |-> 0, absent |-> {}],
    [key |-> "INFRA-4", statusCategory |-> "2", type |-> "Task", fixVersion |-> "",
     component |-> <<>>, labels |-> <<>>,
     priority |-> "", resolution |-> "",
     description |-> [bare |-> {}, urls |-> {}, kept |-> {}],
     comments |-> <<>>,
     issuelinks |-> <<>>,
     epic |-> "", watches |-> 0, votes |-> 0, absent |-> {"customfields"}] }

\* --------------------------------------------------------- configuration
\* allowed_labels.txt as read by fetch_allowed_labels
ApprovedLabelsChoices ==
  { {}, {"jira-component:jira-type:epic", "defect", "priority:major", LongLabel} }

\* labels_mapping.txt as read by fetch_labels_mapping: pairs (from, to)
LabelsMappingChoices == { {<<"bug", "defect">>} }

Configs ==
  [dry_run : BOOLEAN, redirection_service : BOOLEAN,
   approved_labels : ApprovedLabelsChoices,
   labels_mapping : LabelsMappingChoices]

\* -------------------------------------------------------------- utils.py
\* str.lower() on the strings of the model
Lower(s) == CASE s = "Bug"  -> "bug"
              [] s = "Epic" -> "epic"
              [] s = "Task" -> "task"
              [] s = "Major" -> "major"
              [] s = "Fixed" -> "fixed"
              [] OTHER      -> s

\* none of the strings of the model holds a blank or a quote
proper_label_str(label) == Lower(label)

NoLabel == "<None>"

_map_label(label, labels_mapping) ==
  IF \E p \in labels_mapping : p[1] = label
  THEN (CHOOSE p \in labels_mapping : p[1] = label)[2]
  ELSE label

_is_label_approved(label, approved_labels) == label \in approved_labels

\* convert_label without the test of the allow-list
convert_label_NoAllowList(label, labels_mappings, approved_labels) ==
  _map_label(label, labels_mappings)

convert_label(label, labels_mappings, approved_labels) ==
  LET mapped_label == _map_label(label, labels_mappings) IN
  IF _is_label_approved(mapped_label, approved_labels) THEN mapped_label ELSE NoLabel

\* ------------------------------------------------- dicts of project.py
\* A Python dict (defaultdict(int)) is the sequence of its <<key, value>>
\* pairs in insertion order.
RECURSIVE DictKeys(_)
DictKeys(d) == IF d = <<>> THEN <<>> ELSE <<Head(d)[1]>> \o DictKeys(Tail(d))

DictHas(d, k) == \E i \in DOMAIN d : d[i][1] = k

DictGet(d, k) == d[CHOOSE i \in DOMAIN d : d[i][1] = k][2]

DictSet(d, k, v) ==
  IF DictHas(d, k)
  THEN [i \in DOMAIN d |-> IF d[i][1] = k THEN <<k, v>> ELSE d[i]]
  ELSE Append(d, <<k, v>>)

\* d[k] += 1 on a defaultdict(int)
DictInc(d, k) == DictSet(d, k, (IF DictHas(d, k) THEN DictGet(d, k) ELSE 0) + 1)

\* dict.update: the keys of e overwrite or are appended, in e's order
RECURSIVE DictUpdate(_, _)
DictUpdate(d, e) ==
  IF e = <<>> THEN d ELSE DictUpdate(DictSet(d, Head(e)[1], Head(e)[2]), Tail(e))

\* list(set(xs)): the values of xs once each (Python leaves the order open)
Unique(xs) == SetToSeq(Range(xs))

\* ------------------------------------------------------------ project.py
\* project.py:22: config.jira_done_id
doneStatusCategoryId == "3"

_projectFor(item) == ProjectOfKey(item.key)

_jira_type_mapping(issue_type) ==
  CASE issue_type = "bug"         -> "bug"
    [] issue_type = "improvement" -> "enhancement"
    [] issue_type = "new feature" -> "enhancement"
    [] issue_type = "task"        -> "jira-type:task"
    [] issue_type = "story"       -> "jira-type:story"
    [] issue_type = "patch"       -> "jira-type:patch"
    [] issue_type = "epic"        -> "jira-type:epic"
    [] OTHER                      -> NoLabel

_find_epic_link_key(item) == item.epic

\* The browse URLs outside 'original-jira-link' anchors become URLs of the
\* redirection service, which hold the issue number and no key.
_replace_jira_urls_with_redirection_service(cfg, s) ==
  IF ~cfg.redirection_service THEN s ELSE [s EXCEPT !.urls = {}]

TextUnion(a, b) ==
  [bare |-> a.bare \cup b.bare, urls |-> a.urls \cup b.urls, kept |-> a.kept \cup b.kept]

\* s[:n]
Truncate(s, n) == IF Len(s) > n THEN SubSeq(s, 1, n) ELSE s

RECURSIVE ComponentLabels(_)
ComponentLabels(cs) ==
  IF cs = <<>> THEN <<>>
  ELSE <<"component:" \o proper_label_str(Truncate(Head(cs), 40))>>
       \o ComponentLabels(Tail(cs))

RECURSIVE ConvertedLabels(_, _)
ConvertedLabels(cfg, ls) ==
  IF ls = <<>> THEN <<>>
  ELSE LET c == convert_label(proper_label_str(Head(ls)), cfg.labels_mapping,
                              cfg.approved_labels)
       IN (IF c = NoLabel THEN <<>> ELSE <<Truncate(c, 50)>>)
          \o ConvertedLabels(cfg, Tail(ls))

\* project.py:138-152, 182-209: the labels of a new issue. The priority and
\* resolution labels are appended after the list was made unique.
IssueLabels(cfg, item) ==
  LET labels == <<"imported-jira-issue">>
                \o ComponentLabels(item.component)
                \o <<_jira_type_mapping(Lower(item.type))>>
                \o ConvertedLabels(cfg, item.labels)
  IN SetToSeq(Range(labels) \ {NoLabel, ""})
     \o (IF item.priority = "" THEN <<>>
         ELSE <<"priority:" \o proper_label_str(item.priority)>>)
     \o (IF item.resolution = "" THEN <<>>
         ELSE <<"resolution:" \o proper_label_str(item.resolution)>>)

\* project.py:154-298: the key tokens of the body of a new issue
IssueBody(cfg, item) ==
  LET hidden_refs == [bare |-> {item.key} \cup (IF _find_epic_link_key(item) = ""
                                                THEN {} ELSE {_find_epic_link_key(item)}),
                      urls |-> {}, kept |-> {}]
      reporter_link == [bare |-> {}, urls |-> {}, kept |-> {item.key}]
      \* the cleaned description and its raw copy hold the same key tokens
      body == TextUnion(hidden_refs, TextUnion(reporter_link, item.description))
  IN _replace_jira_urls_with_redirection_service(cfg, body)

\* project.py:300-319: the keys of the dict of a new issue ('closed_at', kept
\* for closed issues only, is left out)
NewIssueFields ==
  {"title", "key", "body", "created_at", "updated_at", "closed", "labels", "comments",
   "duplicates", "is-duplicated-by", "is-related-to", "depends-on", "blocks",
   "_watchers_count", "_votes_count"}

\* project.py:128-319. fields is the set of the keys of the dict; epic_link
\* is "" for the value None.
_append_item_to_project(cfg, p, item) ==
  [p EXCEPT !.Issues = Append(@,
     [key |-> item.key,
      fields |-> NewIssueFields,
      closed |-> item.statusCategory = doneStatusCategoryId,
      body |-> IssueBody(cfg, item),
      labels |-> IssueLabels(cfg, item),
      comments |-> <<>>,
      duplicates |-> <<>>,
      is_duplicated_by |-> <<>>,
      is_related_to |-> <<>>,
      depends_on |-> <<>>,
      blocks |-> <<>>,
      epic_link |-> "",
      milestone_name |-> "",
      _watchers_count |-> item.watches,
      _votes_count |-> item.votes])]

\* _add_milestone with str.strip() for str.trim(): 'milestone_name' is stored
_add_milestone_Stored(p, item) ==
  IF item.fixVersion = "" THEN p
  ELSE [p EXCEPT !.Milestones = DictInc(@, item.fixVersion),
                 !.Issues[Len(p.Issues)].milestone_name = item.fixVersion,
                 !.Issues[Len(p.Issues)].fields = @ \cup {"milestone_name"}]

\* project.py:341-347: the histogram is updated, then str.trim(), which no
\* Python string has, raises the AttributeError the handler swallows, so
\* 'milestone_name' is never stored in the issue.
_add_milestone(p, item) ==
  IF item.fixVersion = "" THEN p
  ELSE [p EXCEPT !.Milestones = DictInc(@, item.fixVersion)]

\* project.py:349-379: each of the three blocks updates its histogram for
\* the first value and leaves on the AttributeError of str.trim().
_add_labels(p, item) ==
  LET p1 == IF item.component = <<>> THEN p
            ELSE [p EXCEPT !.Components = DictInc(@, item.component[1])]
      p2 == IF item.labels = <<>> THEN p1
            ELSE [p1 EXCEPT !.Labels = DictInc(@, item.labels[1])]
  IN [p2 EXCEPT !.Types = DictInc(@, item.type)]

LastIssue(p) == p.Issues[Len(p.Issues)]

SetLastIssue(p, issue) == [p EXCEPT !.Issues[Len(p.Issues)] = issue]

\* project.py:426-485: one comment per <comment> of the item
RECURSIVE CommentsOf(_, _, _)
CommentsOf(cfg, item, cs) ==
  IF cs = <<>> THEN <<>>
  ELSE LET \* the hidden jira_issue_key reference, the 'no-jira-link-rewrite'
           \* comment link and the 'original-jira-link' comment link
           links == [bare |-> {item.key}, urls |-> {item.key}, kept |-> {item.key}]
           comment_body == TextUnion(links, Head(cs))
       IN <<[kind |-> "comment", relationship_type |-> "",
             body |-> _replace_jira_urls_with_redirection_service(cfg, comment_body)]>>
          \o CommentsOf(cfg, item, Tail(cs))

_add_comments(cfg, p, item) ==
  SetLastIssue(p, [LastIssue(p) EXCEPT !.comments = @ \o CommentsOf(cfg, item, item.comments)])

\* outwardlink.get("description").replace(' ', '-') on the descriptions of the model
LinkField(description) ==
  CASE description = "relates to"       -> "relates-to"
    [] description = "is blocked by"    -> "is-blocked-by"
    [] description = "is duplicated by" -> "is-duplicated-by"
    [] description = "depends on"       -> "depends-on"
    [] OTHER                            -> description

\* the list-valued keys of an issue a link description can name
RelationshipFields == {"duplicates", "is-duplicated-by", "is-related-to", "depends-on", "blocks"}

RECURSIVE KeysOfLinks(_)
KeysOfLinks(links) ==
  IF links = <<>> THEN <<>>
  ELSE (IF LinkField(Head(links).description) \in RelationshipFields
        THEN [i \in DOMAIN Head(links).issuekeys |->
                <<LinkField(Head(links).description), Head(links).issuekeys[i]>>]
        ELSE <<>>)
       \o KeysOfLinks(Tail(links))

\* project.py:507-516 (direction "outwardlinks"), 519-528 ("inwardlinks"):
\* the <<field, key>> pairs appended, in order. The loop is left by the
\* AttributeError of the first <issuelinktype> without the element.
RECURSIVE LinkPass(_, _)
LinkPass(issuelinktypes, direction) ==
  IF issuelinktypes = <<>> THEN <<>>
  ELSE LET links == Head(issuelinktypes)[direction] IN
       IF links = <<>> THEN <<>>
       ELSE KeysOfLinks(links) \o LinkPass(Tail(issuelinktypes), direction)

LinkedKeys(item, field) ==
  LET pairs == LinkPass(item.issuelinks, "outwardlinks")
               \o LinkPass(item.issuelinks, "inwardlinks")
      found == SelectSeq(pairs, LAMBDA pr : pr[1] = field)
  IN [i \in DOMAIN found |-> found[i][2]]

\* project.py:506-532
_add_relationships(p, item) ==
  SetLastIssue(p,
    [LastIssue(p) EXCEPT
       !.duplicates = @ \o LinkedKeys(item, "duplicates"),
       !.is_duplicated_by = @ \o LinkedKeys(item, "is-duplicated-by"),
       !.is_related_to = @ \o LinkedKeys(item, "is-related-to"),
       !.depends_on = @ \o LinkedKeys(item, "depends-on"),
       !.blocks = @ \o LinkedKeys(item, "blocks"),
       !.epic_link = _find_epic_link_key(item),
       !.fields = @ \cup {"epic-link"}])

\* project.py:83-102
\* The elements _append_item_to_project reads outside any try block
\* (project.py:141, 146, 154, 167 and 535): for an item without one of them
\* the attribute access raises AttributeError before the issue is appended.
\* The sections of priority, resolution, environment and attachments are
\* read inside try blocks (project.py:181-187, 203-209, 224-236, 238-260).
UnguardedElements == {"component", "labels", "description", "assignee", "customfields"}

\* project.py:83-102: add_item raises for this item
add_item_raises(item) ==
  /\ _projectFor(item) = ProjectName
  /\ item.absent \cap UnguardedElements # {}

add_item(cfg, p, item) ==
  IF _projectFor(item) # ProjectName THEN p
  ELSE _add_relationships(
         _add_comments(cfg,
           _add_labels(
             _add_milestone(
               _append_item_to_project(cfg, p, item), item), item), item), item)

\* ----------------------------------------------------------- importer.py
\* importer.py:143-168: both patterns find the keys of the configured
\* project wherever they stand in the text
_find_jira_links(text) == text.bare \cup text.urls \cup text.kept

RelationshipComment(jira_key, relationship_type) ==
  [kind |-> "relationship", relationship_type |-> relationship_type,
   body |-> [bare |-> {jira_key}, urls |-> {}, kept |-> {}]]

RECURSIVE RelationshipComments(_, _)
RelationshipComments(keys, relationship_type) ==
  IF keys = <<>> THEN <<>>
  ELSE <<RelationshipComment(Head(keys), relationship_type)>>
       \o RelationshipComments(Tail(keys), relationship_type)

\* importer.py:515-567: the comments list of the issue after the call (the
\* relationship fields are deleted from the issue, see IssueDocument)
convert_relationships_to_comments(issue) ==
  issue.comments
    \o RelationshipComments(issue.duplicates, "duplicates")
    \o RelationshipComments(issue.is_duplicated_by, "is_duplicated_by")
    \o RelationshipComments(issue.is_related_to, "relates_to")
    \o RelationshipComments(issue.depends_on, "depends_on")
    \o RelationshipComments(issue.blocks, "blocks")
    \o (IF issue.epic_link = "" THEN <<>>
        ELSE <<RelationshipComment(issue.epic_link, "epic")>>)

\* convert_relationships_to_comments without its del statements
DeletedRelationshipFields_None == {}

\* importer.py:559-567: the keys convert_relationships_to_comments deletes
DeletedRelationshipFields == RelationshipFields \cup {"epic-link"}

\* importer.py:424-426: the keys that start with '_'
GatheringFields == {"_watchers_count", "_votes_count"}

\* importer.py:298-310, 398-401, 424-426: the issue as it is sent, without
\* 'comments', the relationship fields, 'key' and the '_' fields
IssueDocument(p, issue) ==
  [fields |-> (issue.fields \ (DeletedRelationshipFields \cup {"comments", "key"}
                                \cup GatheringFields))
              \cup (IF issue.milestone_name = "" THEN {} ELSE {"milestone"}),
   body |-> issue.body,
   closed |-> issue.closed,
   labels |-> issue.labels,
   milestone |-> IF issue.milestone_name = "" THEN 0
                 ELSE DictGet(p.Milestones, issue.milestone_name)]

NoResponse == [status_code |-> 0, url |-> <<"", 0>>, status |-> "", issue_url |-> 0]

\* importer.py:10-17
FakeResponse(url, issue_url) ==
  [status_code |-> 202, url |-> url, status |-> "", issue_url |-> issue_url]

NoIssue == [jira_key |-> "",
            issue |-> [fields |-> {}, body |-> NoText, closed |-> FALSE, labels |-> <<>>,
                       milestone |-> 0],
            comments |-> <<>>, original_issue_comments |-> <<>>,
            watchers_count |-> 0, votes_count |-> 0]

VARIABLES
  pc,                     \* where the run stands
  config,                 \* the Config of the run
  read,                   \* items handed to add_item so far
  project,                \* Project._project
  start_from_count,       \* the start offset given to import_issues
  count,                  \* import_issues: count
  current,                \* import_issues: the issue in hand and its comments
  response,               \* the answer of the target to the last request
  status_url,             \* import_issue_with_comments: status_url
  issue_mappings,         \* import_issues: issue_mappings
  github_issue_ids,       \* import_issues: github_issue_ids
  txt_mapping,            \* lines of jira-keys-to-github-id_*.txt
  complete_txt_mapping,   \* lines of jira-keys-to-github-id-for-external-use_*.txt
  json_mapping,           \* jira-to-github-mapping_*.json
  dry_run_issue_counter,  \* Importer._dry_run_issue_counter
  dry_run_index_data,     \* Importer._dry_run_index_data
  dry_run_files,          \* dry-run/<key>.json
  milestone_posts,        \* titles of the create-milestone requests sent
  label_posts,            \* the create-label requests sent, each with its answer
  issue_posts,            \* the documents posted to import/issues, with the answers
  status_gets,            \* the status URLs polled
  not_found,              \* consecutive 404 answers of the current wait (saturating)
  github_issue_count,     \* issues the target has created for this run
  label_name,             \* the label name handed to convert_label
  converted,              \* the results of the successive calls of convert_label
  github_milestones,      \* the pages of milestones of the target, when a run of
                          \* import_milestones on its own follows them
  failures_reported,      \* the names whose failed create request was printed
  content,                \* the text handed to a rewriting function on its own
  returned                \* what its successive applications returned

vars == <<pc, config, read, project, start_from_count, count, current, response,
          status_url, issue_mappings, github_issue_ids, txt_mapping,
          complete_txt_mapping, json_mapping, dry_run_issue_counter,
          dry_run_index_data, dry_run_files, milestone_posts, label_posts,
          issue_posts, status_gets, not_found, github_issue_count, label_name, converted,
          github_milestones, failures_reported, content,
          returned>>

importer_vars == <<count, current, response, status_url, issue_mappings,
                   github_issue_ids, txt_mapping, complete_txt_mapping, json_mapping,
                   dry_run_issue_counter, dry_run_index_data, dry_run_files,
                   issue_posts, status_gets, not_found, github_issue_count>>

\* The state after the prompts of main.py: cfg the Config, start the start
\* offset, and items_read items of other projects already passed to add_item
\* (add_item leaves the Project as it is for them)
InitRun(cfgs, starts, items_read) ==
  /\ pc = "add_items"
  /\ config \in cfgs
  /\ read = items_read
  /\ project = [Milestones |-> <<>>, Components |-> <<>>, Labels |-> <<>>,
                Types |-> <<>>, Issues |-> <<>>]
  /\ start_from_count \in starts
  /\ count = 0
  /\ current = NoIssue
  /\ response = NoResponse
  /\ status_url = <<"", 0>>
  /\ issue_mappings = <<>>
  /\ github_issue_ids = <<>>
  /\ txt_mapping = <<>>
  /\ complete_txt_mapping = <<>>
  /\ json_mapping = [written |-> FALSE, content |-> <<>>]
  /\ dry_run_issue_counter = -1
  /\ dry_run_index_data = <<>>
  /\ dry_run_files = <<>>
  /\ milestone_posts = <<>>
  /\ label_posts = <<>>
  /\ issue_posts = <<>>
  /\ status_gets = {}
  /\ not_found = 0
  /\ github_issue_count = 0
  /\ label_name = NoLabel
  /\ converted = <<>>
  /\ github_milestones = <<>>
  /\ failures_reported = {}
  /\ content = ""
  /\ returned = <<>>

Init == InitRun(Configs, 0..MaxIssues, 0)

\* main.py:49-51
AddItem ==
  /\ pc = "add_items"
  /\ read < MaxIssues
  /\ \E item \in Items :
       IF add_item_raises(item)
         THEN project' = project /\ pc' = "crashed"
         ELSE project' = add_item(config, project, item) /\ pc' = pc
  /\ read' = read + 1
  /\ UNCHANGED <<config, label_name, converted, github_milestones, failures_reported, content, returned, start_from_count, milestone_posts, label_posts>>
  /\ UNCHANGED importer_vars

\* main.py:53-64
Prettify ==
  /\ pc = "add_items"
  /\ pc' = "import_milestones"
  /\ UNCHANGED <<config, label_name, converted, github_milestones, failures_reported, content, returned, read, project, start_from_count, milestone_posts, label_posts>>
  /\ UNCHANGED importer_vars

\* The target: the pages of milestone titles it may answer to the list
\* requests, and the number it gives to a title.
MilestonePageChoices ==
  { <<{}>>, <<{"1.0"}>>, <<{"3.0"}, {"1.0"}>> }

GithubMilestoneNumber(title) ==
  CASE title = "1.0" -> 11
    [] title = "2.0" -> 12
    [] OTHER         -> 13

RECURSIVE SetMilestoneNumbers(_, _)
SetMilestoneNumbers(d, titles) ==
  IF titles = <<>> THEN d
  ELSE SetMilestoneNumbers(DictSet(d, Head(titles), GithubMilestoneNumber(Head(titles))),
                           Tail(titles))

\* ExistingTitles that reads the first page only
ExistingTitles_FirstPage(p, milestone_pages) ==
  SelectSeq(DictKeys(p.Milestones), LAMBDA t : t \in milestone_pages[1])

\* importer.py:61-91: the list 'existing', the discovered names found on one
\* of the pages
ExistingTitles(p, milestone_pages) ==
  SelectSeq(DictKeys(p.Milestones),
            LAMBDA t : \E i \in DOMAIN milestone_pages : t \in milestone_pages[i])

\* importer.py:41-107. created is the set of create requests the target
\* answers with 201.
import_milestones(cfg, p, milestone_pages, created) ==
  LET existing == ExistingTitles(p, milestone_pages)
      matched  == SetMilestoneNumbers(p.Milestones, existing)
      missing  == SelectSeq(DictKeys(p.Milestones), LAMBDA t : t \notin Range(existing))
      posted   == IF cfg.dry_run THEN <<>> ELSE missing
      answered == SelectSeq(posted, LAMBDA t : t \in created)
  IN [Milestones |-> SetMilestoneNumbers(matched, answered), posts |-> posted]

ImportMilestones ==
  /\ pc = "import_milestones"
  /\ \E milestone_pages \in MilestonePageChoices :
     \E created \in SUBSET Range(DictKeys(project.Milestones)) :
       LET r == import_milestones(config, project, milestone_pages, created) IN
       /\ project' = [project EXCEPT !.Milestones = r.Milestones]
       /\ milestone_posts' = milestone_posts \o r.posts
  \* main.py:68
  /\ pc' = IF start_from_count = 0 THEN "import_labels" ELSE "import_issues"
  /\ UNCHANGED <<config, label_name, converted, github_milestones, failures_reported, content, returned, read, start_from_count,
                 label_posts>>
  /\ UNCHANGED importer_vars

\* project.py:71-76
get_all_labels(p) ==
  DictUpdate(DictUpdate(DictUpdate(p.Components, p.Labels), p.Types),
             <<<<"imported-jira-issue", 0>>>>)

AttributeError == "<AttributeError>"

\* labelcolourselector.py:5-15: str has no method startwith, so the second
\* test raises for every label the first test does not match
get_colour(label) ==
  IF label = "jira-type:epic" THEN "ddf4dd" ELSE AttributeError

\* importer.py:120-141: the create requests sent and whether the loop was
\* left by an exception. In dry-run no request is made and r is unbound
\* when line 137 reads r.status_code.
\* importer.py:122-128: the name import_labels gives to the label lkey
prefixed_lkey(cfg, p, lkey) ==
  convert_label(IF DictHas(p.Components, lkey) THEN "jira-component:" \o Lower(lkey)
                ELSE Lower(lkey),
                cfg.labels_mapping, cfg.approved_labels)

RECURSIVE import_labels(_, _, _, _)
import_labels(cfg, p, lkeys, posts) ==
  IF lkeys = <<>> THEN [posts |-> posts, raised |-> FALSE]
  ELSE LET lkey == Head(lkeys)
       IN IF prefixed_lkey(cfg, p, lkey) = NoLabel
            THEN import_labels(cfg, p, Tail(lkeys), posts)
          ELSE IF get_colour(lkey) = AttributeError
                 THEN [posts |-> posts, raised |-> TRUE]
          ELSE IF cfg.dry_run THEN [posts |-> posts, raised |-> TRUE]
          ELSE import_labels(cfg, p, Tail(lkeys),
                             Append(posts, prefixed_lkey(cfg, p, lkey)))

ImportLabels ==
  /\ pc = "import_labels"
  /\ LET r == import_labels(config, project, DictKeys(get_all_labels(project)), <<>>) IN
     \E failed \in SUBSET Range(r.posts) :
       /\ label_posts' = label_posts \o
            [i \in DOMAIN r.posts |->
               [name |-> r.posts[i],
                status_code |-> IF r.posts[i] \in failed THEN 422 ELSE 201]]
       \* importer.py:137-141
       /\ failures_reported' = failures_reported \cup failed
       /\ pc' = IF r.raised THEN "crashed" ELSE "import_issues"
  /\ UNCHANGED <<config, label_name, converted, github_milestones, content, returned,
                 read, project, start_from_count, milestone_posts>>
  /\ UNCHANGED importer_vars

\* ------------------------------------------------ import_issues, per issue
\* the skip test off by one
Skipped_OffByOne(start, n) == start >= n

\* importer.py:292
Skipped(start, n) == start > n

\* importer.py:291-294
SkipIssue ==
  /\ pc = "import_issues"
  /\ count < Len(project.Issues)
  /\ Skipped(start_from_count, count)
  /\ count' = count + 1
  /\ UNCHANGED <<pc, config, label_name, converted, github_milestones, failures_reported, content, returned, read, project, start_from_count, current, response,
                 status_url, issue_mappings, github_issue_ids, txt_mapping,
                 complete_txt_mapping, json_mapping, dry_run_issue_counter,
                 dry_run_index_data, dry_run_files, milestone_posts, label_posts,
                 issue_posts, status_gets, not_found, github_issue_count>>

\* importer.py:298-314, 398-401, 424-427: the issue in hand. The list bound
\* to original_issue_comments is the list convert_relationships_to_comments
\* appends to.
BuildIssue(p, issue) ==
  LET comments == convert_relationships_to_comments(issue) IN
  [jira_key |-> issue.key,
   issue |-> IssueDocument(p, issue),
   comments |-> comments,
   original_issue_comments |-> comments,
   watchers_count |-> issue._watchers_count,
   votes_count |-> issue._votes_count]

\* importer.py:451: issue.get('state', 'open'); no line of project.py or
\* importer.py puts a 'state' key in the dict of an issue
get_state(issue) == IF "state" \in issue.fields THEN issue.state ELSE "open"

\* importer.py:254-259: the statistics of the dry-run index
_generate_index_markdown(index_data) ==
  [open_issues   |-> Cardinality({i \in DOMAIN index_data : index_data[i].state = "open"}),
   closed_issues |-> Cardinality({i \in DOMAIN index_data : index_data[i].state = "closed"})]

issue_data(cur) == [issue |-> cur.issue, comments |-> cur.comments]

\* The answers of the target to the POST of a document
UploadStatusCodes == {202, 422, 500}

\* importer.py:291-316, 417-460: an issue is taken from the corpus, built
\* and uploaded. Live: the document is posted and the target answers.
\* Dry-run: the document is written to dry-run/<key>.json, the index entry
\* is added and a FakeResponse with the url 'dry_run' is returned.
UploadIssue ==
  /\ pc = "import_issues"
  /\ count < Len(project.Issues)
  /\ ~Skipped(start_from_count, count)
  /\ LET cur == BuildIssue(project, project.Issues[count + 1]) IN
       /\ current' = cur
       /\ IF config.dry_run
          THEN /\ dry_run_files' = Append(dry_run_files, <<cur.jira_key, issue_data(cur)>>)
               /\ dry_run_index_data' = Append(dry_run_index_data,
                                               [jira_key |-> cur.jira_key,
                                                state |-> get_state(cur.issue),
                                                labels |-> cur.issue.labels])
               /\ response' = FakeResponse(<<"dry_run", 0>>, 0)
               /\ status_url' = <<"dry_run", 0>>
               /\ pc' = "wait"
               /\ UNCHANGED issue_posts
          ELSE /\ \E code \in UploadStatusCodes :
                    /\ issue_posts' = Append(issue_posts,
                                             [index |-> count, jira_key |-> cur.jira_key,
                                              data |-> issue_data(cur),
                                              status_code |-> code])
                    /\ response' = [status_code |-> code,
                                    url |-> <<"import/issues", Len(issue_posts) + 1>>,
                                    status |-> "", issue_url |-> 0]
               /\ pc' = "uploaded"
               /\ UNCHANGED <<dry_run_files, dry_run_index_data, status_url>>
  /\ UNCHANGED <<config, label_name, converted, github_milestones, failures_reported, content, returned, read, project, start_from_count, count, issue_mappings,
                 github_issue_ids, txt_mapping, complete_txt_mapping, json_mapping,
                 dry_run_issue_counter, milestone_posts, label_posts, status_gets,
                 not_found, github_issue_count>>

\* UploadOutcome with the 422 test lost: a rejected document counts as accepted
UploadOutcome_422Accepted(resp) ==
  IF resp.status_code \in {202, 422} THEN "accepted" ELSE "raise"

\* importer.py:461-472: 202 is returned to the caller, 422 and every other
\* status raise RuntimeError
UploadOutcome(resp) ==
  IF resp.status_code = 202 THEN "accepted"
  ELSE IF resp.status_code = 422 THEN "raise"
  ELSE "raise"

\* CheckUpload that goes on to the next issue as soon as the document is accepted
CheckUpload_NoWait ==
  /\ pc = "uploaded"
  /\ IF UploadOutcome(response) = "accepted"
     THEN /\ status_url' = response.url
          /\ count' = count + 1
          /\ pc' = "import_issues"
     ELSE /\ pc' = "fatal"
          /\ UNCHANGED <<status_url, count>>
  /\ UNCHANGED <<config, label_name, converted, github_milestones, failures_reported, content, returned, read, project, start_from_count, current, response,
                 issue_mappings, github_issue_ids, txt_mapping, complete_txt_mapping,
                 json_mapping, dry_run_issue_counter, dry_run_index_data,
                 dry_run_files, milestone_posts, label_posts, issue_posts,
                 status_gets, not_found, github_issue_count>>

\* CheckUpload that reports a refused document and goes on with the next issue
CheckUpload_ContinueOnError ==
  /\ pc = "uploaded"
  /\ IF UploadOutcome(response) = "accepted"
     THEN /\ status_url' = response.url
          /\ pc' = "wait"
          /\ UNCHANGED count
     ELSE /\ pc' = "import_issues"
          /\ count' = count + 1
          /\ UNCHANGED status_url
  /\ UNCHANGED <<config, label_name, converted, github_milestones, failures_reported, content, returned, read, project, start_from_count, current, response,
                 issue_mappings, github_issue_ids, txt_mapping, complete_txt_mapping,
                 json_mapping, dry_run_issue_counter, dry_run_index_data,
                 dry_run_files, milestone_posts, label_posts, issue_posts,
                 status_gets, not_found, github_issue_count>>

\* importer.py:461-472, 404
CheckUpload ==
  /\ pc = "uploaded"
  /\ IF UploadOutcome(response) = "accepted"
     THEN /\ status_url' = response.url
          /\ pc' = "wait"
     ELSE /\ pc' = "fatal"
          /\ UNCHANGED status_url
  /\ UNCHANGED <<config, label_name, converted, github_milestones, failures_reported, content, returned, read, project, start_from_count, count, current, response,
                 issue_mappings, github_issue_ids, txt_mapping, complete_txt_mapping,
                 json_mapping, dry_run_issue_counter, dry_run_index_data,
                 dry_run_files, milestone_posts, label_posts, issue_posts,
                 status_gets, not_found, github_issue_count>>

\* importer.py:319-347: the mapping record of the issue in hand
MappingRecord(cur, gh_issue_id) ==
  LET in_body == _find_jira_links(cur.issue.body)
      in_comments == FlattenSets([i \in DOMAIN cur.original_issue_comments |->
                        _find_jira_links(cur.original_issue_comments[i].body)])
  IN [jira_issue_key |-> cur.jira_key,
      github_issue_id |-> gh_issue_id,
      labels |-> cur.issue.labels,
      watchers_count |-> cur.watchers_count,
      has_watchers |-> cur.watchers_count > 0,
      votes_count |-> cur.votes_count,
      has_votes |-> cur.votes_count > 0,
      jira_links |-> in_body \cup in_comments,
      \* 'jira_links' and 'jira_links_in_body' are bound to one list when
      \* the body holds a link, and the comment links extend that list
      jira_links_in_body |-> IF in_body # {} THEN in_body \cup in_comments ELSE {},
      jira_links_in_comments |-> in_comments,
      has_jira_links |-> in_body # {} \/ in_comments # {},
      resolved |-> FALSE,
      jira_links_imported |-> {},
      jira_links_in_body_imported |-> {},
      jira_links_in_comments_imported |-> {}]

\* RecordImport with the first text mapping file opened for writing, not appending
RecordImport_Truncates(gh_issue_id) ==
  /\ txt_mapping' = <<<<current.jira_key, gh_issue_id>>>>
  /\ complete_txt_mapping' =
       Append(complete_txt_mapping, <<current.jira_key, "account/repo", gh_issue_id>>)
  /\ issue_mappings' = Append(issue_mappings, MappingRecord(current, gh_issue_id))
  /\ github_issue_ids' = DictSet(github_issue_ids, current.jira_key, gh_issue_id)
  /\ count' = count + 1
  /\ pc' = "import_issues"

\* importer.py:405-415, 319-352: the identifier is noted, one line is
\* appended to each text mapping file, the mapping record is built
RecordImport(gh_issue_id) ==
  /\ txt_mapping' = Append(txt_mapping, <<current.jira_key, gh_issue_id>>)
  /\ complete_txt_mapping' =
       Append(complete_txt_mapping, <<current.jira_key, "account/repo", gh_issue_id>>)
  /\ issue_mappings' = Append(issue_mappings, MappingRecord(current, gh_issue_id))
  /\ github_issue_ids' = DictSet(github_issue_ids, current.jira_key, gh_issue_id)
  /\ count' = count + 1
  /\ pc' = "import_issues"

\* WaitDryRun that leaves _dry_run_issue_counter as it is
WaitDryRun_CounterKept ==
  /\ pc = "wait"
  /\ config.dry_run
  /\ response' = FakeResponse(<<"", 0>>, dry_run_issue_counter)
  /\ RecordImport(dry_run_issue_counter)
  /\ UNCHANGED <<config, label_name, converted, github_milestones, failures_reported, content, returned, read, project, start_from_count, current, status_url,
                 json_mapping, dry_run_issue_counter, dry_run_index_data, dry_run_files,
                 milestone_posts, label_posts, issue_posts, status_gets, not_found,
                 github_issue_count>>

\* importer.py:480-483 and the rest of the iteration
WaitDryRun ==
  /\ pc = "wait"
  /\ config.dry_run
  /\ dry_run_issue_counter' = dry_run_issue_counter - 1
  /\ response' = FakeResponse(<<"", 0>>, dry_run_issue_counter)
  /\ RecordImport(dry_run_issue_counter)
  /\ UNCHANGED <<config, label_name, converted, github_milestones, failures_reported, content, returned, read, project, start_from_count, current, status_url,
                 json_mapping, dry_run_index_data, dry_run_files, milestone_posts,
                 label_posts, issue_posts, status_gets, not_found, github_issue_count>>

\* The answers of the target to a poll of the status URL
PollAnswers ==
  { [status_code |-> 404, status |-> ""],
    [status_code |-> 500, status |-> ""],
    [status_code |-> 200, status |-> "pending"],
    [status_code |-> 200, status |-> "imported"],
    [status_code |-> 200, status |-> "failed"],
    [status_code |-> 200, status |-> "queued"] }

\* importer.py:485-488: sleep, poll the status URL, the target answers
PollStatus ==
  /\ pc = "wait"
  /\ ~config.dry_run
  /\ status_gets' = status_gets \cup {status_url}
  /\ \E a \in PollAnswers :
       LET done == a.status_code = 200 /\ a.status = "imported" IN
       /\ github_issue_count' = IF done THEN github_issue_count + 1 ELSE github_issue_count
       /\ response' = [status_code |-> a.status_code, url |-> status_url,
                       status |-> a.status,
                       issue_url |-> IF done THEN github_issue_count + 1 ELSE 0]
  /\ pc' = "polled"
  /\ UNCHANGED <<config, label_name, converted, github_milestones, failures_reported, content, returned, read, project, start_from_count, count, current, status_url,
                 issue_mappings, github_issue_ids, txt_mapping, complete_txt_mapping,
                 json_mapping, dry_run_issue_counter, dry_run_index_data,
                 dry_run_files, milestone_posts, label_posts, issue_posts, not_found>>

\* StatusOutcome without the 404 test: a 404 falls into the test for 200
StatusOutcome_404Raises(resp) ==
  IF resp.status_code # 200 THEN "raise"
  ELSE IF resp.status = "pending" THEN "pending"
  ELSE IF resp.status = "imported" THEN "imported"
  ELSE "raise"

\* StatusOutcome that keeps polling until 'imported' or 'failed' is seen
StatusOutcome_UnknownRetries(resp) ==
  IF resp.status_code = 404 THEN "not_found"
  ELSE IF resp.status_code # 200 THEN "raise"
  ELSE IF resp.status = "imported" THEN "imported"
  ELSE IF resp.status = "failed" THEN "raise"
  ELSE "pending"

\* importer.py:489-512: what wait_for_issue_creation does with an answer
StatusOutcome(resp) ==
  IF resp.status_code = 404 THEN "not_found"
  ELSE IF resp.status_code # 200 THEN "raise"
  ELSE IF resp.status = "pending" THEN "pending"
  ELSE IF resp.status = "imported" THEN "imported"
  ELSE IF resp.status = "failed" THEN "raise"
  ELSE "raise"

\* importer.py:489-513 and the rest of the iteration
CheckStatus ==
  /\ pc = "polled"
  /\ LET outcome == StatusOutcome(response) IN
     IF outcome = "not_found"
     THEN /\ pc' = "wait"
          /\ not_found' = IF not_found < MaxPolls THEN not_found + 1 ELSE not_found
          /\ UNCHANGED <<count, issue_mappings, github_issue_ids, txt_mapping,
                         complete_txt_mapping>>
     ELSE IF outcome = "pending"
     THEN /\ pc' = "wait"
          /\ not_found' = 0
          /\ UNCHANGED <<count, issue_mappings, github_issue_ids, txt_mapping,
                         complete_txt_mapping>>
     ELSE IF outcome = "imported"
     THEN /\ RecordImport(response.issue_url)
          /\ not_found' = 0
     ELSE /\ pc' = "fatal"
          /\ UNCHANGED <<count, issue_mappings, github_issue_ids, txt_mapping,
                         complete_txt_mapping, not_found>>
  /\ UNCHANGED <<config, label_name, converted, github_milestones, failures_reported, content, returned, read, project, start_from_count, current, response,
                 status_url, json_mapping, dry_run_issue_counter, dry_run_index_data,
                 dry_run_files, milestone_posts, label_posts, issue_posts,
                 status_gets, github_issue_count>>

\* ResolveLinks without the test for the key in github_issue_ids
ResolveLinks_NoTest(mapping, ids) ==
  IF ~mapping.has_jira_links THEN mapping
  ELSE [mapping EXCEPT !.resolved = TRUE,
                       !.jira_links_imported = mapping.jira_links,
                       !.jira_links_in_body_imported = mapping.jira_links_in_body,
                       !.jira_links_in_comments_imported = mapping.jira_links_in_comments]

\* importer.py:354-370: the post-pass on one mapping record
ResolveLinks(mapping, ids) ==
  IF ~mapping.has_jira_links THEN mapping
  ELSE LET body == {k \in mapping.jira_links_in_body : DictHas(ids, k)}
           comments == {k \in mapping.jira_links_in_comments : DictHas(ids, k)}
       IN [mapping EXCEPT !.resolved = TRUE,
                          !.jira_links_imported = body \cup comments,
                          !.jira_links_in_body_imported = body,
                          !.jira_links_in_comments_imported = comments]

\* FinishImport that resolves each record against the identifiers known when
\* the record was built (resolution issue by issue)
FinishImport_Incremental ==
  /\ pc = "import_issues"
  /\ count >= Len(project.Issues)
  /\ issue_mappings' =
       [i \in DOMAIN issue_mappings |->
          ResolveLinks(issue_mappings[i],
                       SelectSeq(github_issue_ids,
                                 LAMBDA e : \E j \in 1..i :
                                    issue_mappings[j].jira_issue_key = e[1]))]
  /\ json_mapping' = [written |-> TRUE, content |-> issue_mappings']
  /\ pc' = "done"
  /\ UNCHANGED <<config, label_name, converted, github_milestones, failures_reported, content, returned, read, project, start_from_count, count, current, response,
                 status_url, github_issue_ids, txt_mapping, complete_txt_mapping,
                 dry_run_issue_counter, dry_run_index_data, dry_run_files,
                 milestone_posts, label_posts, issue_posts, status_gets, not_found,
                 github_issue_count>>

\* importer.py:354-385: the loop is over, the links are resolved and the
\* JSON mapping is written
FinishImport ==
  /\ pc = "import_issues"
  /\ count >= Len(project.Issues)
  /\ issue_mappings' = [i \in DOMAIN issue_mappings |->
                          ResolveLinks(issue_mappings[i], github_issue_ids)]
  /\ json_mapping' = [written |-> TRUE, content |-> issue_mappings']
  /\ pc' = "done"
  /\ UNCHANGED <<config, label_name, converted, github_milestones, failures_reported, content, returned, read, project, start_from_count, count, current, response,
                 status_url, github_issue_ids, txt_mapping, complete_txt_mapping,
                 dry_run_issue_counter, dry_run_index_data, dry_run_files,
                 milestone_posts, label_posts, issue_posts, status_gets, not_found,
                 github_issue_count>>

Next ==
  \/ AddItem
  \/ Prettify
  \/ ImportMilestones
  \/ ImportLabels
  \/ SkipIssue
  \/ UploadIssue
  \/ CheckUpload
  \/ WaitDryRun
  \/ PollStatus
  \/ CheckStatus
  \/ FinishImport

Spec == Init /\ [][Next]_vars

\* The runs checked for liveness: exports of which all items but two belong
\* to other projects, without redirection service
LiveInit ==
  InitRun({c \in Configs : ~c.redirection_service /\ c.approved_labels = {}},
          {0, 1}, MaxIssues - 2)

\* The run is one sequential flow of control: a step that can be taken is taken.
LiveSpec == LiveInit /\ [][Next]_vars /\ WF_vars(Next)

\* ------------------------------------------- convert_label on its own
MaxCalls == 2      \* successive calls of one function on one label name

\* The label names, renaming tables and allow-lists convert_label is given
LabelNames == {"bug", "defect", "flaw", "task", NoLabel}

RenamingTables ==
  { {}, {<<"bug", "defect">>}, {<<"bug", "defect">>, <<"defect", "flaw">>},
    {<<"bug", "defect">>, <<"defect", "bug">>} }

ConvertConfigs ==
  [dry_run : {TRUE}, redirection_service : {FALSE},
   approved_labels : SUBSET {"bug", "defect", "flaw"},
   labels_mapping : RenamingTables]

ConvertInit ==
  /\ pc = "convert_label"
  /\ config \in ConvertConfigs
  /\ label_name \in LabelNames
  /\ converted = <<>>
  /\ github_milestones = <<>>
  /\ failures_reported = {}
  /\ content = ""
  /\ returned = <<>>
  /\ read = 0
  /\ project = [Milestones |-> <<>>, Components |-> <<>>, Labels |-> <<>>,
                Types |-> <<>>, Issues |-> <<>>]
  /\ start_from_count = 0
  /\ count = 0
  /\ current = NoIssue
  /\ response = NoResponse
  /\ status_url = <<"", 0>>
  /\ issue_mappings = <<>>
  /\ github_issue_ids = <<>>
  /\ txt_mapping = <<>>
  /\ complete_txt_mapping = <<>>
  /\ json_mapping = [written |-> FALSE, content |-> <<>>]
  /\ dry_run_issue_counter = -1
  /\ dry_run_index_data = <<>>
  /\ dry_run_files = <<>>
  /\ milestone_posts = <<>>
  /\ label_posts = <<>>
  /\ issue_posts = <<>>
  /\ status_gets = {}
  /\ not_found = 0
  /\ github_issue_count = 0

\* utils.py:106-111: convert_label is called on the label name, then on the
\* result of the last call
ConvertLabel ==
  /\ pc = "convert_label"
  /\ Len(converted) < MaxCalls
  /\ converted' = Append(converted,
                         convert_label(IF converted = <<>> THEN label_name
                                       ELSE converted[Len(converted)],
                                       config.labels_mapping, config.approved_labels))
  /\ UNCHANGED <<pc, config, label_name, github_milestones, failures_reported, content, returned, read, project, start_from_count, milestone_posts,
                 label_posts>>
  /\ UNCHANGED importer_vars

ConvertNext == ConvertLabel

ConvertSpec == ConvertInit /\ [][ConvertNext]_vars

\* ---------------------------------------- import_milestones on its own
MaxMilestonePosts == 3      \* create-milestone requests followed

\* Project._project['Milestones'] after add_item: the discovered names with
\* the number of their issues
MilestoneHistograms ==
  { <<>>, <<<<"1.0", 1>>>>, <<<<"2.0", 2>>>>, <<<<"1.0", 1>>, <<"2.0", 1>>>>,
    <<<<"2.0", 1>>, <<"1.0", 2>>>> }

\* The pages of milestones the target holds before the first run
TargetMilestonePages ==
  MilestonePageChoices \cup { <<{"2.0"}>>, <<{"1.0", "2.0"}, {"3.0"}>> }

MilestoneInit ==
  /\ pc = "import_milestones_alone"
  /\ config \in {c \in Configs : ~c.redirection_service /\ c.approved_labels = {}}
  /\ label_name = NoLabel
  /\ converted = <<>>
  /\ github_milestones \in TargetMilestonePages
  /\ failures_reported = {}
  /\ content = ""
  /\ returned = <<>>
  /\ read = 0
  /\ \E h \in MilestoneHistograms :
       project = [Milestones |-> h, Components |-> <<>>, Labels |-> <<>>,
                  Types |-> <<>>, Issues |-> <<>>]
  /\ start_from_count = 0
  /\ count = 0
  /\ current = NoIssue
  /\ response = NoResponse
  /\ status_url = <<"", 0>>
  /\ issue_mappings = <<>>
  /\ github_issue_ids = <<>>
  /\ txt_mapping = <<>>
  /\ complete_txt_mapping = <<>>
  /\ json_mapping = [written |-> FALSE, content |-> <<>>]
  /\ dry_run_issue_counter = -1
  /\ dry_run_index_data = <<>>
  /\ dry_run_files = <<>>
  /\ milestone_posts = <<>>
  /\ label_posts = <<>>
  /\ issue_posts = <<>>
  /\ status_gets = {}
  /\ not_found = 0
  /\ github_issue_count = 0

\* importer.py:41-107: one run of import_milestones against the pages the
\* target holds; the milestones the target creates are on a further page
\* at the next run
RunImportMilestones ==
  /\ pc = "import_milestones_alone"
  /\ Len(milestone_posts) < MaxMilestonePosts
  /\ \E created \in SUBSET Range(DictKeys(project.Milestones)) :
       LET r == import_milestones(config, project, github_milestones, created)
           answered == Range(r.posts) \cap created
       IN /\ project' = [project EXCEPT !.Milestones = r.Milestones]
          /\ milestone_posts' = milestone_posts \o r.posts
          /\ github_milestones' = IF answered = {} THEN github_milestones
                                  ELSE Append(github_milestones, answered)
  /\ UNCHANGED <<pc, config, label_name, converted, failures_reported, content, returned, read, start_from_count,
                 label_posts>>
  /\ UNCHANGED importer_vars

MilestoneNext == RunImportMilestones

MilestoneSpec == MilestoneInit /\ [][MilestoneNext]_vars

\* ------------------------------- the rewriting of Jira URLs on its own
\* Texts are strings here, and the regular expression of
\* replace_jira_urls_with_redirection_service is followed character by
\* character.

\* config.py: the base URL of the Jira instance and the redirection service
jiraBaseUrl == "https://issues.jenkins.io"
RedirectionServiceUrl == "https://issue-redirect.jenkins.io"

\* s[i:i+len(pat)] == pat
At(s, i, pat) ==
  /\ i >= 1
  /\ i + Len(pat) - 1 <= Len(s)
  /\ SubSeq(s, i, i + Len(pat) - 1) = pat

\* the lookbehind (?<=pat) at position i
Behind(s, i, pat) == At(s, i - Len(pat), pat)

\* the first position from i on whose character is not in chars
RECURSIVE SpanIn(_, _, _)
SpanIn(s, i, chars) ==
  IF i <= Len(s) /\ SubSeq(s, i, i) \in chars THEN SpanIn(s, i + 1, chars) ELSE i

\* the first position from i on whose character is in chars
RECURSIVE SpanNotIn(_, _, _)
SpanNotIn(s, i, chars) ==
  IF i <= Len(s) /\ SubSeq(s, i, i) \notin chars THEN SpanNotIn(s, i + 1, chars) ELSE i

Digits == {"0", "1", "2", "3", "4", "5", "6", "7", "8", "9"}

\* the characters [^\s<>"]* stops at
QueryStops == {" ", "\n", "\t", "\r", "<", ">", "\""}

\* the lookbehinds without the two that take the protocol of the href
OriginalLinkLookbehinds_NoProtocol ==
  {"<a class=\"original-jira-link\" href=\""}

\* utils.py:153-155, project.py:566-568: the three negative lookbehinds
OriginalLinkLookbehinds ==
  {"<a class=\"original-jira-link\" href=\"",
   "<a class=\"original-jira-link\" href=\"https://",
   "<a class=\"original-jira-link\" href=\"http://"}

\* utils.py:150-151: jiraBaseUrl without its protocol (the escaped dots
\* match dots only)
jira_base_without_protocol ==
  IF At(jiraBaseUrl, 1, "https://") THEN SubSeq(jiraBaseUrl, 9, Len(jiraBaseUrl))
  ELSE IF At(jiraBaseUrl, 1, "http://") THEN SubSeq(jiraBaseUrl, 8, Len(jiraBaseUrl))
  ELSE jiraBaseUrl

\* utils.py:152-157: the match of the pattern that starts at position i, as
\* [found, number, query, end]; (?:https?://)? is tried with the protocol
\* first, then without
UrlMatchAt(s, i) ==
  LET browse == jira_base_without_protocol \o "/browse/" \o ProjectName \o "-"
      Starts(protocol) ==
        /\ At(s, i, protocol \o browse)
        /\ SpanIn(s, i + Len(protocol) + Len(browse), Digits)
             > i + Len(protocol) + Len(browse)
      protocol == IF Starts("https://") THEN "https://"
                  ELSE IF Starts("http://") THEN "http://"
                  ELSE ""
      first_digit == i + Len(protocol) + Len(browse)
      after_digits == SpanIn(s, first_digit, Digits)
      after_query == IF At(s, after_digits, "?")
                       THEN SpanNotIn(s, after_digits + 1, QueryStops)
                       ELSE after_digits
  IN IF /\ \A lookbehind \in OriginalLinkLookbehinds : ~Behind(s, i, lookbehind)
        /\ Starts(protocol)
       THEN [found |-> TRUE,
             number |-> SubSeq(s, first_digit, after_digits - 1),
             query |-> SubSeq(s, after_digits, after_query - 1),
             end |-> after_query]
       ELSE [found |-> FALSE, number |-> "", query |-> "", end |-> i]

\* the leftmost position from i on where the pattern matches, 0 when none
NextUrlMatch(s, i) ==
  LET starts == {j \in i..Len(s) : UrlMatchAt(s, j).found}
  IN IF starts = {} THEN 0 ELSE CHOOSE j \in starts : \A k \in starts : j <= k

\* utils.py:159-164: re.sub from position i on
RECURSIVE SubUrlsFrom(_, _)
SubUrlsFrom(s, i) ==
  LET j == NextUrlMatch(s, i)
      m == UrlMatchAt(s, j)
  IN IF j = 0 THEN SubSeq(s, i, Len(s))
     ELSE SubSeq(s, i, j - 1)
          \o RedirectionServiceUrl \o "/issue/" \o m.number \o m.query
          \o SubUrlsFrom(s, m.end)

\* utils.py:134-165 and project.py:547-579 (the same code)
replace_jira_urls_with_redirection_service(cfg, s) ==
  IF ~cfg.redirection_service THEN s ELSE SubUrlsFrom(s, 1)

\* The texts rewritten: one URL of the Jira instance in a sentence. class is
\* the class of the anchor it is the href of, "" for an anchor without
\* class, "text" for a URL in plain text.
AnchorClasses ==
  {"original-jira-link", "no-jira-link-rewrite", "original-jira-comment-link", "", "text"}

UrlProtocols == {"https://", "http://", ""}

UrlTails == {"", "#comment-7", "?focusedId=7&page=tabpanel#comment-7"}

JiraUrls ==
  [class : AnchorClasses, protocol : UrlProtocols, project : {ProjectName, "JENKINS"},
   number : {"123"}, tail : UrlTails]

\* the sentence around a URL or around what it was replaced with
Sentence(class, url) ==
  "See " \o (CASE class = "text" -> url
               [] class = ""     -> "<a href=\"" \o url \o "\">link</a>"
               [] OTHER          -> "<a class=\"" \o class \o "\" href=\"" \o url
                                    \o "\">link</a>")
         \o " for details"

BrowseUrl(u) ==
  u.protocol \o "issues.jenkins.io/browse/" \o u.project \o "-" \o u.number \o u.tail

TextOf(u) == Sentence(u.class, BrowseUrl(u))

\* The state of a run that has not read any item
NoRun ==
  /\ read = 0
  /\ project = [Milestones |-> <<>>, Components |-> <<>>, Labels |-> <<>>,
                Types |-> <<>>, Issues |-> <<>>]
  /\ start_from_count = 0
  /\ count = 0
  /\ current = NoIssue
  /\ response = NoResponse
  /\ status_url = <<"", 0>>
  /\ issue_mappings = <<>>
  /\ github_issue_ids = <<>>
  /\ txt_mapping = <<>>
  /\ complete_txt_mapping = <<>>
  /\ json_mapping = [written |-> FALSE, content |-> <<>>]
  /\ dry_run_issue_counter = -1
  /\ dry_run_index_data = <<>>
  /\ dry_run_files = <<>>
  /\ milestone_posts = <<>>
  /\ label_posts = <<>>
  /\ issue_posts = <<>>
  /\ status_gets = {}
  /\ not_found = 0
  /\ github_issue_count = 0
  /\ label_name = NoLabel
  /\ converted = <<>>
  /\ github_milestones = <<>>
  /\ failures_reported = {}

RewriteInit ==
  /\ pc = "replace_jira_urls"
  /\ config \in {c \in Configs : c.approved_labels = {}}
  /\ content \in JiraUrls
  /\ returned = <<>>
  /\ NoRun

\* one call of replace_jira_urls_with_redirection_service
ReplaceJiraUrls ==
  /\ pc = "replace_jira_urls"
  /\ returned = <<>>
  /\ returned' = <<replace_jira_urls_with_redirection_service(config, TextOf(content))>>
  /\ UNCHANGED <<pc, config, content, label_name, converted, github_milestones,
                 failures_reported, read, project, start_from_count, milestone_posts,
                 label_posts>>
  /\ UNCHANGED importer_vars

RewriteNext == ReplaceJiraUrls

RewriteSpec == RewriteInit /\ [][RewriteNext]_vars

\* --------------------------------------------------- _clean_html on its own
\* Texts are strings, and each substitution of _clean_html is followed
\* character by character.

\* \s
Whitespace == {" ", "\t", "\n", "\r"}

\* [A-Za-z0-9._-]
NameChars ==
  {"a", "b", "c", "d", "e", "f", "g", "h", "i", "j", "k", "l", "m", "n", "o", "p", "q",
   "r", "s", "t", "u", "v", "w", "x", "y", "z", "A", "B", "C", "D", "E", "F", "G", "H",
   "I", "J", "K", "L", "M", "N", "O", "P", "Q", "R", "S", "T", "U", "V", "W", "X", "Y",
   "Z", ".", "_", "-"} \cup Digits

\* an escape that inserts nothing
ZeroWidthSpace_Nothing == ""

\* project.py:596: the character U+200B put after the '@' of a mention,
\* written ^ here; like U+200B it is not in the class of the name
ZeroWidthSpace == "^"

\* html.entities.name2codepoint, for the entities of the texts of the model
name2codepoint ==
  { <<"amp", "&">>, <<"lt", "<">>, <<"gt", ">">>, <<"quot", "\"">> }

\* the leftmost position from i on where pat stands, 0 when none
FirstAt(s, i, pat) ==
  LET starts == {j \in i..(Len(s) - Len(pat) + 1) : At(s, j, pat)}
  IN IF starts = {} THEN 0 ELSE CHOOSE j \in starts : \A k \in starts : j <= k

\* the start of the run of whitespace that ends before position k, not
\* before position lo
RECURSIVE SpanBack(_, _, _)
SpanBack(s, k, lo) ==
  IF k > lo /\ SubSeq(s, k - 1, k - 1) \in Whitespace THEN SpanBack(s, k - 1, lo) ELSE k

\* project.py:587-593: the literal parts of the four patterns
CodeOpen ==
  "<div class=\"code panel\" style=\"border-width: 1px;\"><div class=\"codeContent panelContent\">\n<pre class=\"code-"
NoformatOpen ==
  "<div class=\"preformatted panel\" style=\"border-width: 1px;\"><div class=\"preformattedContent panelContent\">\n<pre>"
PreClose == "</pre>\n</div></div>"
PanelTitleOpen ==
  "<div class=\"panel\" style=\"border-width: 1px;\"><div class=\"panelHeader\" style=\"border-bottom-width: 1px;\"><b>"
PanelTitleClose == "</b></div><div class=\"panelContent\">"
PanelOpen ==
  "<div class=\"panel\" style=\"border-width: 1px;\"><div class=\"panelContent\">"
PanelClose == "</div></div>"

\* project.py:589: the fence of three backquotes, written with quotes here
CodeFence == "'''"

NoMatch == [found |-> FALSE, replacement |-> "", end |-> 0]

\* project.py:543: ' ' * 8
EightSpacesAt(s, i) ==
  IF At(s, i, "        ")
    THEN [found |-> TRUE, replacement |-> "", end |-> i + 8]
    ELSE NoMatch

\* project.py:544-545: '&(name|...);' and the character it stands for
EntityAt(s, i) ==
  LET named == {e \in name2codepoint : At(s, i, "&" \o e[1] \o ";")}
      e == CHOOSE x \in named : TRUE
  IN IF named = {} THEN NoMatch
     ELSE [found |-> TRUE, replacement |-> e[2], end |-> i + Len(e[1]) + 2]

\* project.py:587: the {code} block
CodeBlockAt(s, i) ==
  LET quote == SpanNotIn(s, i + Len(CodeOpen), {"\""})
      close == FirstAt(s, quote + 2, PreClose)
  IN IF At(s, i, CodeOpen) /\ At(s, quote, "\">") /\ close # 0
       THEN [found |-> TRUE,
             replacement |-> "\n<pre>\n" \o SubSeq(s, quote + 2, close - 1) \o "</pre>",
             end |-> close + Len(PreClose)]
       ELSE NoMatch

\* project.py:589: the {noformat} block
NoformatBlockAt(s, i) ==
  LET close == FirstAt(s, i + Len(NoformatOpen), PreClose)
  IN IF At(s, i, NoformatOpen) /\ close # 0
       THEN [found |-> TRUE,
             replacement |-> "\n\n" \o CodeFence \o "\n"
                             \o SubSeq(s, i + Len(NoformatOpen), close - 1)
                             \o "\n" \o CodeFence,
             end |-> close + Len(PreClose)]
       ELSE NoMatch

\* project.py:591: the {panel:title} block
PanelTitleAt(s, i) ==
  LET title_end == FirstAt(s, i + Len(PanelTitleOpen), PanelTitleClose)
      body == SpanIn(s, title_end + Len(PanelTitleClose), Whitespace)
      close == FirstAt(s, body, PanelClose)
  IN IF At(s, i, PanelTitleOpen) /\ title_end # 0 /\ close # 0
       THEN [found |-> TRUE,
             replacement |-> "\n\n<table><tr><td><b>"
                             \o SubSeq(s, i + Len(PanelTitleOpen), title_end - 1)
                             \o "</b></td></tr><tr><td>"
                             \o SubSeq(s, body, SpanBack(s, close, body) - 1)
                             \o "</td></tr></table>\n",
             end |-> close + Len(PanelClose)]
       ELSE NoMatch

\* project.py:593: the {panel} block
PanelAt(s, i) ==
  LET body == SpanIn(s, i + Len(PanelOpen), Whitespace)
      close == FirstAt(s, body, PanelClose)
  IN IF At(s, i, PanelOpen) /\ close # 0
       THEN [found |-> TRUE,
             replacement |-> "\n\n<table><tr><td>"
                             \o SubSeq(s, body, SpanBack(s, close, body) - 1)
                             \o "</td></tr></table>\n",
             end |-> close + Len(PanelClose)]
       ELSE NoMatch

\* project.py:596: '@([A-Za-z0-9._-]+)'
MentionAt(s, i) ==
  LET name_end == SpanIn(s, i + 1, NameChars)
  IN IF At(s, i, "@") /\ name_end > i + 1
       THEN [found |-> TRUE,
             replacement |-> "@" \o ZeroWidthSpace \o SubSeq(s, i + 1, name_end - 1),
             end |-> name_end]
       ELSE NoMatch

PatternAt(pattern, s, i) ==
  CASE pattern = "spaces"      -> EightSpacesAt(s, i)
    [] pattern = "entity"      -> EntityAt(s, i)
    [] pattern = "code"        -> CodeBlockAt(s, i)
    [] pattern = "noformat"    -> NoformatBlockAt(s, i)
    [] pattern = "panel:title" -> PanelTitleAt(s, i)
    [] pattern = "panel"       -> PanelAt(s, i)
    [] pattern = "mention"     -> MentionAt(s, i)

\* re.sub (and str.replace) from position i on: the leftmost match is
\* replaced and the search goes on behind it
RECURSIVE SubFrom(_, _, _)
SubFrom(pattern, s, i) ==
  LET starts == {j \in i..Len(s) : PatternAt(pattern, s, j).found}
      j == CHOOSE x \in starts : \A k \in starts : x <= k
      m == PatternAt(pattern, s, j)
  IN IF starts = {} THEN SubSeq(s, i, Len(s))
     ELSE SubSeq(s, i, j - 1) \o m.replacement \o SubFrom(pattern, s, m.end)

\* project.py:540-545
_htmlentitydecode(s) == SubFrom("entity", SubFrom("spaces", s, 1), 1)

\* project.py:581-598
_clean_html(s) ==
  SubFrom("mention",
    SubFrom("panel",
      SubFrom("panel:title",
        SubFrom("noformat",
          SubFrom("code", _htmlentitydecode(s), 1), 1), 1), 1), 1)

MaxCleanings == 2    \* successive applications of _clean_html to one text

\* The pieces of the texts cleaned: text is the piece, kind what it holds,
\* escaped the piece with a zero-width space behind the '@' of each mention
TextPieces ==
  { [kind |-> "plain",    text |-> "plain text, 50% done", escaped |-> "plain text, 50% done"],
    [kind |-> "plain",    text |-> "mail @ home", escaped |-> "mail @ home"],
    [kind |-> "mention",  text |-> "ping @alice", escaped |-> "ping @^alice"],
    [kind |-> "mention",  text |-> "bob@example.org, @@carol_2!",
                          escaped |-> "bob@^example.org, @@^carol_2!"],
    [kind |-> "entity",   text |-> "R&amp;D", escaped |-> "R&amp;D"],
    [kind |-> "entity",   text |-> "a &amp;lt; b", escaped |-> "a &amp;lt; b"],
    [kind |-> "spaces",   text |-> "col1        col2", escaped |-> "col1        col2"],
    [kind |-> "code",
     text |-> CodeOpen \o "java\">int x;</pre>\n</div></div>",
     escaped |-> CodeOpen \o "java\">int x;</pre>\n</div></div>"],
    [kind |-> "noformat",
     text |-> NoformatOpen \o "raw @dave</pre>\n</div></div>",
     escaped |-> NoformatOpen \o "raw @^dave</pre>\n</div></div>"],
    [kind |-> "panel:title",
     text |-> PanelTitleOpen \o "Note" \o PanelTitleClose \o "\n<p>read</p>\n</div></div>",
     escaped |-> PanelTitleOpen \o "Note" \o PanelTitleClose \o "\n<p>read</p>\n</div></div>"],
    [kind |-> "panel",
     text |-> PanelOpen \o "\n<p>see</p>\n</div></div>",
     escaped |-> PanelOpen \o "\n<p>see</p>\n</div></div>"] }

\* The texts cleaned: one piece, or two on two lines
CleanTexts ==
  {<<p>> : p \in TextPieces} \cup {<<p, q>> : p \in TextPieces, q \in TextPieces}

RECURSIVE JoinLines(_)
JoinLines(lines) ==
  IF lines = <<>> THEN ""
  ELSE IF Len(lines) = 1 THEN lines[1]
  ELSE lines[1] \o "\n" \o JoinLines(Tail(lines))

CleanInit ==
  /\ pc = "clean_html"
  /\ config \in {c \in Configs : ~c.dry_run /\ ~c.redirection_service /\ c.approved_labels = {}}
  /\ content \in CleanTexts
  /\ returned = <<>>
  /\ NoRun

\* one call of _clean_html, on the text or on what the last call returned
CleanHtml ==
  /\ pc = "clean_html"
  /\ Len(returned) < MaxCleanings
  /\ returned' = Append(returned,
                        _clean_html(IF returned = <<>>
                                      THEN JoinLines([i \in DOMAIN content |-> content[i].text])
                                      ELSE returned[Len(returned)]))
  /\ UNCHANGED <<pc, config, content, label_name, converted, github_milestones,
                 failures_reported, read, project, start_from_count, milestone_posts,
                 label_posts>>
  /\ UNCHANGED importer_vars

CleanNext == CleanHtml

CleanSpec == CleanInit /\ [][CleanNext]_vars

\* ---------------------------------------------------- get_colour on its own
\* The labels get_colour is asked about
ColourLabels ==
  {prefix \o name :
     prefix \in {"", "jira-type:", "jira-component:", "priority:"},
     name \in {"epic", "task", "story", "patch", "bug", "Bug", "core", "major",
               "imported-jira-issue", "needs-triage"}}

ColourInit ==
  /\ pc = "get_colour"
  /\ config \in {c \in Configs : ~c.dry_run /\ ~c.redirection_service /\ c.approved_labels = {}}
  /\ label_name \in ColourLabels
  /\ content = ""
  /\ returned = <<>>
  /\ read = 0
  /\ project = [Milestones |-> <<>>, Components |-> <<>>, Labels |-> <<>>,
                Types |-> <<>>, Issues |-> <<>>]
  /\ start_from_count = 0
  /\ count = 0
  /\ current = NoIssue
  /\ response = NoResponse
  /\ status_url = <<"", 0>>
  /\ issue_mappings = <<>>
  /\ github_issue_ids = <<>>
  /\ txt_mapping = <<>>
  /\ complete_txt_mapping = <<>>
  /\ json_mapping = [written |-> FALSE, content |-> <<>>]
  /\ dry_run_issue_counter = -1
  /\ dry_run_index_data = <<>>
  /\ dry_run_files = <<>>
  /\ milestone_posts = <<>>
  /\ label_posts = <<>>
  /\ issue_posts = <<>>
  /\ status_gets = {}
  /\ not_found = 0
  /\ github_issue_count = 0
  /\ converted = <<>>
  /\ github_milestones = <<>>
  /\ failures_reported = {}

\* labelcolourselector.py:5-15: one call of get_colour, in this run or in
\* the next one; a call that raises returns nothing, which AttributeError
\* stands for
GetColour ==
  /\ pc = "get_colour"
  /\ Len(returned) < MaxCalls
  /\ returned' = Append(returned, get_colour(label_name))
  /\ UNCHANGED <<pc, config, content, label_name, converted, github_milestones,
                 failures_reported, read, project, start_from_count, milestone_posts,
                 label_posts>>
  /\ UNCHANGED importer_vars

ColourNext == GetColour

ColourSpec == ColourInit /\ [][ColourNext]_vars

\* ------------------------------------------------------------------ claims
IsPrefix(a, b) == Len(a) <= Len(b) /\ SubSeq(b, 1, Len(a)) = a

NothingRecorded ==
  UNCHANGED <<txt_mapping, complete_txt_mapping, issue_mappings, github_issue_ids>>

SomethingRecorded ==
  \/ txt_mapping' # txt_mapping
  \/ complete_txt_mapping' # complete_txt_mapping
  \/ issue_mappings' # issue_mappings /\ pc' # "done"
  \/ github_issue_ids' # github_issue_ids

\* The step records an issue whose POST was answered with 202 and whose
\* status poll was just answered with 200 and the status 'imported'
RecordedAfter202AndImported ==
  /\ pc = "polled"
  /\ response.status_code = 200 /\ response.status = "imported"
  /\ status_url \in status_gets
  /\ issue_posts # <<>>
  /\ issue_posts[Len(issue_posts)].index = count
  /\ issue_posts[Len(issue_posts)].jira_key = current.jira_key
  /\ issue_posts[Len(issue_posts)].status_code = 202
  /\ txt_mapping' = Append(txt_mapping, <<current.jira_key, response.issue_url>>)

\* The answers that are fatal: a POST not answered with 202, a poll answered
\* with neither 200 nor 404, a status other than 'pending' and 'imported'
FatalAnswer ==
  \/ pc = "uploaded" /\ response.status_code # 202
  \/ pc = "polled" /\ response.status_code \notin {200, 404}
  \/ pc = "polled" /\ response.status_code = 200
       /\ response.status \notin {"pending", "imported"}

\* C1 as stated, for both modes: an issue is recorded as imported only after
\* a 202 answer to its POST and a 200 'imported' answer to a status poll,
\* and every fatal answer raises and records nothing.
C1_RecordedOnlyAfterImported ==
  [][ /\ SomethingRecorded => RecordedAfter202AndImported
      /\ FatalAnswer => (pc' = "fatal" /\ NothingRecorded) ]_vars

\* C1 amended: in live mode an issue is recorded as imported only after a
\* 202 answer to its POST and a 200 'imported' answer to a status poll;
\* a non-202 answer to the POST, a poll answer other than 200 and 404, the
\* status 'failed' and every status other than 'pending' and 'imported'
\* raise a fatal error and record nothing for the issue. (In dry-run an
\* issue is recorded with no request at all.)
C1_LiveRecordedOnlyAfterImported ==
  [][ /\ (~config.dry_run /\ SomethingRecorded) => RecordedAfter202AndImported
      /\ FatalAnswer => (pc' = "fatal" /\ NothingRecorded) ]_vars

\* an issue was imported in live mode and a later one met a fatal answer
C1_Witness ==
  /\ ~config.dry_run
  /\ pc = "fatal"
  /\ Len(txt_mapping) = 1
  /\ Len(issue_posts) = 2

\* The wait loop of the issue in hand leaves the run untouched
WaitKeepsRun ==
  UNCHANGED <<issue_posts, status_url, count, current, txt_mapping,
              complete_txt_mapping, issue_mappings, github_issue_ids>>

\* C2: while an issue is pending in live mode a 404 answer to a poll raises
\* no error and posts nothing: the machine goes back to waiting, and the
\* only request it then makes is a poll of the same status URL, the one the
\* 202 answer to the POST of this issue gave.
C2_NotFoundIsRetried ==
  [][ /\ (pc = "polled" /\ response.status_code = 404) => (pc' = "wait" /\ WaitKeepsRun)
      /\ (pc = "wait" /\ ~config.dry_run) =>
           /\ pc' = "polled"
           /\ status_gets' = status_gets \cup {status_url}
           /\ response'.url = status_url
           /\ status_url = <<"import/issues", Len(issue_posts)>>
           /\ WaitKeepsRun ]_vars

\* MaxPolls 404 answers in a row, the issue still pending, one document
\* posted and one status URL polled
C2_Witness ==
  /\ pc = "wait"
  /\ ~config.dry_run
  /\ not_found = MaxPolls
  /\ Len(issue_posts) = 1
  /\ status_gets = {status_url}

RetryAnswer ==
  \/ response.status_code = 404
  \/ response.status_code = 200 /\ response.status = "pending"

\* C3: in live mode the wait ends, with the issue imported or with a fatal
\* error, once the target answers a poll with anything other than 404 and
\* 200 'pending'; a 404 or a 'pending' answer always leads to another poll,
\* whatever the number of polls made so far.
C3_WaitEndsOnFinalAnswer ==
  /\ (pc = "polled" /\ response.status_code = 200 /\ response.status = "imported")
        ~> (pc = "import_issues")
  /\ (pc = "polled" /\ ~RetryAnswer
        /\ ~(response.status_code = 200 /\ response.status = "imported"))
        ~> (pc = "fatal")
  /\ [][(pc = "polled" /\ RetryAnswer) => (pc' = "wait" /\ WaitKeepsRun)]_vars
  /\ [][(pc = "wait" /\ ~config.dry_run) => pc' = "polled"]_vars

\* after MaxPolls 404 answers in a row a final answer ended the wait
C3_Witness ==
  /\ pc = "fatal"
  /\ not_found = MaxPolls
  /\ response.status_code = 200
  /\ response.status = "failed"

\* The keys of the documents submitted so far, in the order of submission:
\* posted in live mode, written to dry-run/ in dry-run mode
SubmittedSeq ==
  IF config.dry_run THEN [i \in DOMAIN dry_run_files |-> dry_run_files[i][1]]
  ELSE [i \in DOMAIN issue_posts |-> issue_posts[i].jira_key]

SubmittedKeys == Range(SubmittedSeq)

\* The keys of the issues at the zero-based positions n, n+1, ...
KeysFrom(n) ==
  [i \in 1..(IF Len(project.Issues) > n THEN Len(project.Issues) - n ELSE 0) |->
     project.Issues[n + i].key]

\* The issues imported so far in this run
ImportedCount == IF count > start_from_count THEN count - start_from_count ELSE 0

\* C4: at most one issue is submitted and not yet recorded: a document is
\* posted (written, in dry-run) only when every issue submitted before has
\* its line in both text mapping files, and the documents are posted in
\* corpus order.
C4_OneIssueAtATime ==
  /\ Len(SubmittedSeq) - Len(txt_mapping) \in {0, 1}
  /\ Len(txt_mapping) = Len(complete_txt_mapping)
  /\ \A i \in DOMAIN txt_mapping :
       /\ txt_mapping[i][1] = SubmittedSeq[i]
       /\ complete_txt_mapping[i][1] = SubmittedSeq[i]
  /\ \A i \in DOMAIN issue_posts :
       /\ project.Issues[issue_posts[i].index + 1].key = issue_posts[i].jira_key
       /\ \A j \in DOMAIN issue_posts : i < j => issue_posts[i].index < issue_posts[j].index

\* the second document is posted, the first issue has its two lines
C4_Witness ==
  /\ pc = "uploaded"
  /\ Len(issue_posts) = 2
  /\ Len(txt_mapping) = 1
  /\ Len(complete_txt_mapping) = 1

\* C5: when a fatal error is raised on the issue at position k (count = k),
\* no issue after k has been submitted, k has been submitted once, every
\* issue from the start offset up to k-1 has its line in both text mapping
\* files, and the run takes no further step.
C5_FatalHaltsRun ==
  /\ [](pc = "fatal" =>
          /\ \A i \in DOMAIN issue_posts : issue_posts[i].index <= count
          /\ Cardinality({i \in DOMAIN issue_posts : issue_posts[i].index = count}) = 1
          /\ count >= start_from_count
          /\ Len(txt_mapping) = count - start_from_count
          /\ Len(complete_txt_mapping) = count - start_from_count
          /\ \A j \in 1..(count - start_from_count) :
               /\ txt_mapping[j][1] = project.Issues[start_from_count + j].key
               /\ complete_txt_mapping[j][1] = project.Issues[start_from_count + j].key)
  /\ [][pc # "fatal"]_vars

\* a fatal error after one imported issue, with an issue left in the corpus
C5_Witness ==
  /\ pc = "fatal"
  /\ Len(txt_mapping) = 1
  /\ count + 1 < Len(project.Issues)

\* C6: in both modes each text mapping file holds one line per issue
\* imported in this run, in import order, with the key of the issue and its
\* identifier (the target numbers the issues it creates 1, 2, ...; the
\* dry-run identifiers are -1, -2, ...); a line once written stays.
C6_MappingLinesAppendOnly ==
  /\ [](/\ Len(txt_mapping) = ImportedCount
        /\ Len(complete_txt_mapping) = ImportedCount
        /\ Len(issue_mappings) = ImportedCount
        /\ \A j \in 1..ImportedCount :
             LET key == project.Issues[start_from_count + j].key
                 id  == IF config.dry_run THEN 0 - j ELSE j
             IN /\ txt_mapping[j] = <<key, id>>
                /\ complete_txt_mapping[j] = <<key, "account/repo", id>>
                /\ issue_mappings[j].jira_issue_key = key
                /\ issue_mappings[j].github_issue_id = id)
  /\ [][IsPrefix(txt_mapping, txt_mapping')
        /\ IsPrefix(complete_txt_mapping, complete_txt_mapping')]_vars

\* two issues imported in dry-run, after one skipped
C6_Witness ==
  /\ config.dry_run
  /\ start_from_count = 1
  /\ Len(txt_mapping) = 2

\* C7: after import_issues, a key of the in-body (in-comments) reference set
\* of a mapping record is in the in-body (in-comments) resolvable set if and
\* only if it is the key of an issue submitted in this run.
C7_ResolvableIffSubmitted ==
  pc = "done" =>
    /\ json_mapping.written /\ json_mapping.content = issue_mappings
    /\ \A i \in DOMAIN issue_mappings :
         LET m == issue_mappings[i] IN
         /\ \A K \in m.jira_links_in_body :
              K \in m.jira_links_in_body_imported <=> K \in SubmittedKeys
         /\ \A K \in m.jira_links_in_comments :
              K \in m.jira_links_in_comments_imported <=> K \in SubmittedKeys
         /\ \A K \in m.jira_links :
              K \in m.jira_links_imported <=> K \in SubmittedKeys
         /\ m.jira_links_in_body_imported \subseteq m.jira_links_in_body
         /\ m.jira_links_in_comments_imported \subseteq m.jira_links_in_comments

\* a record refers in its comments to a submitted issue and in its body to
\* an issue the start offset skipped and to a key outside the corpus
C7_Witness ==
  /\ pc = "done"
  /\ start_from_count > 0
  /\ \E i \in DOMAIN issue_mappings :
       LET m == issue_mappings[i] IN
       /\ m.jira_links_in_comments_imported # {}
       /\ \E K \in m.jira_links_in_body \ m.jira_links_in_body_imported :
            K \in Range(KeysFrom(0))
       /\ \E K \in m.jira_links_in_body \ m.jira_links_in_body_imported :
            K \notin Range(KeysFrom(0))

\* github_issue_ids after the issues are imported in the given order
RECURSIVE RunIds(_)
RunIds(issues) ==
  IF issues = <<>> THEN <<>>
  ELSE DictSet(RunIds(SubSeq(issues, 1, Len(issues) - 1)),
               issues[Len(issues)].key, Len(issues))

\* The mapping records of a run that imports the issues in the given order
RunMappings(issues) ==
  [j \in DOMAIN issues |->
     ResolveLinks(MappingRecord(BuildIssue(project, issues[j]), j), RunIds(issues))]

Resolvable(m) ==
  <<m.resolved, m.jira_links_imported, m.jira_links_in_body_imported,
    m.jira_links_in_comments_imported>>

\* C8: the resolvable sets of the records of a finished run are those of a
\* run that submits the same issues in any other order; the key a 'blocks'
\* link names is resolvable whenever the linked issue is submitted in the
\* run, before or after the linking one.
C8_ResolvableWhateverTheOrder ==
  pc = "done" =>
    LET sub == SubSeq(project.Issues, start_from_count + 1, Len(project.Issues))
        n   == Len(sub)
    IN /\ Len(issue_mappings) = n
       /\ \A perm \in Permutations(1..n) :
            LET run == RunMappings([i \in 1..n |-> sub[perm[i]]]) IN
            \A i \in 1..n : Resolvable(run[i]) = Resolvable(issue_mappings[perm[i]])
       /\ \A i \in 1..n : \A K \in Range(sub[i].blocks) :
            K \in SubmittedKeys => K \in issue_mappings[i].jira_links_in_comments_imported

\* INFRA-1, which blocks INFRA-2, was submitted before INFRA-2
C8_Witness ==
  /\ pc = "done"
  /\ start_from_count = 0
  /\ Len(project.Issues) >= 2
  /\ project.Issues[1].key = "INFRA-1"
  /\ project.Issues[2].key = "INFRA-2"
  /\ "INFRA-2" \in Range(project.Issues[1].blocks)
  /\ "INFRA-2" \in issue_mappings[1].jira_links_in_comments_imported

\* C9: with start offset N nothing is submitted, written or recorded for
\* the positions below N and no request is made about them; the issues
\* from N on are submitted once each in corpus order, all of them when
\* import_issues completes.
C9_StartOffsetSkips ==
  /\ IsPrefix(SubmittedSeq, KeysFrom(start_from_count))
  /\ IsPrefix([i \in DOMAIN txt_mapping |-> txt_mapping[i][1]], SubmittedSeq)
  /\ IsPrefix([i \in DOMAIN complete_txt_mapping |-> complete_txt_mapping[i][1]],
              SubmittedSeq)
  /\ IsPrefix([i \in DOMAIN issue_mappings |-> issue_mappings[i].jira_issue_key],
              SubmittedSeq)
  /\ \A i \in DOMAIN issue_posts : issue_posts[i].index = start_from_count + i - 1
  /\ status_gets \subseteq {<<"import/issues", i>> : i \in DOMAIN issue_posts}
  /\ pc = "done" => SubmittedSeq = KeysFrom(start_from_count)

\* a live run over three issues that skipped the first
C9_Witness ==
  /\ pc = "done"
  /\ ~config.dry_run
  /\ start_from_count = 1
  /\ Len(project.Issues) = 3
  /\ Len(issue_posts) = 2

\* In dry-run no create request, no document and no status poll is sent
DryRunSendsNothing ==
  config.dry_run =>
    /\ milestone_posts = <<>>
    /\ label_posts = <<>>
    /\ issue_posts = <<>>
    /\ status_gets = {}

\* C10: in dry-run mode no create-milestone request, no create-label
\* request, no issue document and no status poll is sent, and every
\* creation and every issue import is treated as a success: no step of the
\* run raises.
C10_DryRunSendsNothingAndSucceeds ==
  /\ DryRunSendsNothing
  /\ config.dry_run => pc \notin {"crashed", "fatal"}

\* C11: in dry-run mode import_labels never raises: when the run stands
\* before import_labels, the loop over the labels of the corpus runs to its
\* end, whatever labels survive convert_label.
C11_DryRunImportLabelsCompletes ==
  (config.dry_run /\ pc = "import_labels") =>
    ~import_labels(config, project, DictKeys(get_all_labels(project)), <<>>).raised

\* The item of the export with the given key (the keys of Items are distinct)
ItemOfKey(key) == CHOOSE item \in Items : item.key = key

\* The issue add_item builds from the item with the given key
CorpusIssue(cfg, key) ==
  LastIssue(add_item(cfg, [Milestones |-> <<>>, Components |-> <<>>, Labels |-> <<>>,
                           Types |-> <<>>, Issues |-> <<>>], ItemOfKey(key)))

\* The documents a live run with the configuration of this run may post
\* for the issue with the given key, one for each answer of the target to
\* import_milestones
LiveDocuments(key) ==
  LET live == [config EXCEPT !.dry_run = FALSE] IN
  { issue_data(BuildIssue(
      [project EXCEPT !.Milestones =
         import_milestones(live, project, milestone_pages, created).Milestones],
      CorpusIssue(live, key))) :
    milestone_pages \in MilestonePageChoices,
    created \in SUBSET Range(DictKeys(project.Milestones)) }

\* C12: the document a dry run has just written to dry-run/<key>.json is
\* the document a live run with the same corpus and configuration posts for
\* the issue, whatever the target answered to import_milestones; the
\* document a live run has just posted is of that same set.
C12_DryRunDocumentIsLiveDocument ==
  /\ (config.dry_run /\ pc = "wait") =>
       /\ dry_run_files # <<>>
       /\ LiveDocuments(dry_run_files[Len(dry_run_files)][1])
            = {dry_run_files[Len(dry_run_files)][2]}
  /\ (~config.dry_run /\ pc = "uploaded") =>
       /\ issue_posts # <<>>
       /\ LiveDocuments(issue_posts[Len(issue_posts)].jira_key)
            = {issue_posts[Len(issue_posts)].data}

\* a dry run wrote the document of INFRA-1, whose fixVersion 1.0 the target
\* does not hold: a live run would have created the milestone
C12_Witness ==
  /\ config.dry_run
  /\ pc = "wait"
  /\ dry_run_files[Len(dry_run_files)][1] = "INFRA-1"
  /\ DictHas(project.Milestones, "1.0")
  /\ DictGet(project.Milestones, "1.0") # GithubMilestoneNumber("1.0")

\* The fields of a mapping record a replay has to reproduce
ReplayedFields(m) ==
  <<m.jira_issue_key, m.github_issue_id, m.watchers_count, m.votes_count,
    m.jira_links, m.jira_links_in_body, m.jira_links_in_comments, Resolvable(m)>>

\* github_issue_ids of a dry run over the given issues
RECURSIVE DryRunIds(_)
DryRunIds(issues) ==
  IF issues = <<>> THEN <<>>
  ELSE DictSet(DryRunIds(SubSeq(issues, 1, Len(issues) - 1)),
               issues[Len(issues)].key, 0 - Len(issues))

\* The mapping records of a dry run, computed from its input alone: the
\* configuration, the items of the export and the start offset
DryRunReplay(cfg, keys, start) ==
  LET issues == [i \in 1..(IF Len(keys) > start THEN Len(keys) - start ELSE 0) |->
                   CorpusIssue(cfg, keys[start + i])]
      p == [Milestones |-> <<>>, Components |-> <<>>, Labels |-> <<>>,
            Types |-> <<>>, Issues |-> <<>>]
  IN [j \in DOMAIN issues |->
        ResolveLinks(MappingRecord(BuildIssue(p, issues[j]), 0 - j), DryRunIds(issues))]

\* C13: the mapping records of a finished dry run are those the input of the
\* run determines (same keys, identifiers, watcher and vote counts,
\* reference and resolvable sets), whatever the target answered meanwhile.
C13_DryRunReplayGivesSameRecords ==
  (pc = "done" /\ config.dry_run) =>
    LET replay == DryRunReplay(config, KeysFrom(0), start_from_count) IN
    /\ Len(issue_mappings) = Len(replay)
    /\ \A j \in DOMAIN replay :
         ReplayedFields(issue_mappings[j]) = ReplayedFields(replay[j])
    /\ json_mapping.content = issue_mappings

\* a finished dry run of two issues or more, one with a resolvable
\* reference, in which the target held the milestone 1.0
C13_Witness ==
  /\ pc = "done"
  /\ config.dry_run
  /\ Len(issue_mappings) >= 2
  /\ \E j \in DOMAIN issue_mappings : issue_mappings[j].jira_links_in_comments_imported # {}
  /\ DictHas(project.Milestones, "1.0")
  /\ DictGet(project.Milestones, "1.0") = GithubMilestoneNumber("1.0")

\* The documents submitted so far with the keys of their issues: posted in
\* live mode, written to dry-run/ in dry-run mode
SubmittedDocuments ==
  IF config.dry_run
  THEN [i \in DOMAIN dry_run_files |->
          [jira_key |-> dry_run_files[i][1], data |-> dry_run_files[i][2]]]
  ELSE [i \in DOMAIN issue_posts |->
          [jira_key |-> issue_posts[i].jira_key, data |-> issue_posts[i].data]]

NoRelationshipFields(item) == item.issuelinks = <<>> /\ item.epic = ""

SyntheticComments(comments) == SelectSeq(comments, LAMBDA c : c.kind = "relationship")

RECURSIVE KeysNamedBy(_)
KeysNamedBy(links) ==
  IF links = <<>> THEN <<>> ELSE Head(links).issuekeys \o KeysNamedBy(Tail(links))

\* The keys named by the outward and inward links of an item, one per link
RECURSIVE LinksOf(_)
LinksOf(issuelinktypes) ==
  IF issuelinktypes = <<>> THEN <<>>
  ELSE KeysNamedBy(Head(issuelinktypes).outwardlinks)
       \o KeysNamedBy(Head(issuelinktypes).inwardlinks)
       \o LinksOf(Tail(issuelinktypes))

\* C15: the submitted document of an issue holds one synthetic relationship
\* comment per outward link, per inward link and per epic link of its item,
\* each link named by a comment: their number is the number of the issue
\* links of the item, plus one when it has an epic link.
C15_EveryLinkOneSyntheticComment ==
  \A i \in DOMAIN SubmittedDocuments :
    LET doc == SubmittedDocuments[i]
        item == ItemOfKey(doc.jira_key)
        synthetic == SyntheticComments(doc.data.comments)
    IN /\ Len(synthetic) = Len(LinksOf(item.issuelinks)) + (IF item.epic = "" THEN 0 ELSE 1)
       /\ \A K \in Range(LinksOf(item.issuelinks)) \cup ({item.epic} \ {""}) :
            \E j \in DOMAIN synthetic : synthetic[j].body.bare = {K}

NoDuplicates(xs) == \A i, j \in DOMAIN xs : xs[i] = xs[j] => i = j

\* C16: the labels list of every issue of the corpus, and of every
\* submitted document, holds no value twice and holds the sentinel label
\* 'imported-jira-issue'.
C16_LabelsUniqueWithSentinel ==
  /\ \A i \in DOMAIN project.Issues :
       /\ NoDuplicates(project.Issues[i].labels)
       /\ "imported-jira-issue" \in Range(project.Issues[i].labels)
  /\ \A i \in DOMAIN SubmittedDocuments :
       /\ NoDuplicates(SubmittedDocuments[i].data.issue.labels)
       /\ "imported-jira-issue" \in Range(SubmittedDocuments[i].data.issue.labels)

\* C17: convert_label is idempotent: a second call, on the result of the
\* first, gives the result of the first, and a dropped label stays dropped.
C17_ConvertLabelIdempotent ==
  Len(converted) >= 2 => converted[2] = converted[1]

\* A label convert_label dropped is dropped again
DroppedStaysDropped ==
  \A i \in DOMAIN converted : \A j \in DOMAIN converted :
    (i < j /\ converted[i] = NoLabel) => converted[j] = NoLabel

\* The labels of an issue that do not come from the source labels of its
\* item: the sentinel, the component, type, priority and resolution labels
OtherLabels(item) ==
  {"imported-jira-issue", _jira_type_mapping(Lower(item.type))}
    \cup Range(ComponentLabels(item.component))
    \cup (IF item.priority = "" THEN {} ELSE {"priority:" \o proper_label_str(item.priority)})
    \cup (IF item.resolution = "" THEN {} ELSE {"resolution:" \o proper_label_str(item.resolution)})

\* C18 as stated: every label of an issue of the corpus that derives from a
\* source label is a member of the allow-list.
C18_SourceLabelsOnAllowList ==
  \A i \in DOMAIN project.Issues :
    \A L \in Range(project.Issues[i].labels) \ OtherLabels(ItemOfKey(project.Issues[i].key)) :
      L \in config.approved_labels

\* C18 amended: every label of an issue of the corpus that derives from a
\* source label is a member of the allow-list cut to its first 50
\* characters; a source label whose renamed form is not on the allow-list
\* gives no label.
C18_SourceLabelsOnAllowListCut ==
  \A i \in DOMAIN project.Issues :
    LET item == ItemOfKey(project.Issues[i].key) IN
    /\ \A L \in Range(project.Issues[i].labels) \ OtherLabels(item) :
         \E a \in config.approved_labels : L = Truncate(a, 50)
    /\ \A j \in DOMAIN item.labels :
         LET renamed == _map_label(proper_label_str(item.labels[j]), config.labels_mapping) IN
         IF renamed \in config.approved_labels
         THEN Truncate(renamed, 50) \in Range(project.Issues[i].labels)
         ELSE renamed \in Range(project.Issues[i].labels) => renamed \in OtherLabels(item)

\* the issue of INFRA-2: 'Bug' is kept as 'defect', the long label is kept
\* cut to 50 characters, 'needs-triage' is dropped
C18_Witness ==
  \E i \in DOMAIN project.Issues :
    /\ project.Issues[i].key = "INFRA-2"
    /\ "defect" \in Range(project.Issues[i].labels)
    /\ Truncate(LongLabel, 50) \in Range(project.Issues[i].labels)
    /\ Truncate(LongLabel, 50) # LongLabel
    /\ "needs-triage" \notin Range(project.Issues[i].labels)
    /\ "needs-triage" \in Range(ItemOfKey("INFRA-2").labels)

\* The titles on the pages the target holds
HeldTitles == FlattenSets(github_milestones)

\* C19: a run of import_milestones sends a create request for a discovered
\* name only if the name is on no page of the target, sends no two requests
\* for one name, and stores for every name found on a page the number the
\* target gives to the title; a run against a target that holds every
\* discovered name sends no create request.
C19_MilestonesCreatedOncePerMissingName ==
  [][ pc = "import_milestones_alone" =>
        LET names == Range(DictKeys(project.Milestones))
            new == SubSeq(milestone_posts', Len(milestone_posts) + 1, Len(milestone_posts'))
        IN /\ IsPrefix(milestone_posts, milestone_posts')
           /\ \A t \in Range(new) : t \in names /\ t \notin HeldTitles
           /\ NoDuplicates(new)
           /\ \A t \in names \cap HeldTitles :
                DictGet(project'.Milestones, t) = GithubMilestoneNumber(t)
           /\ names \subseteq HeldTitles => new = <<>> ]_vars

\* a live run created the two discovered names, one of which the target
\* held on its second page; the target now holds every name
C19_Witness ==
  /\ pc = "import_milestones_alone"
  /\ ~config.dry_run
  /\ Len(milestone_posts) = 1
  /\ Len(github_milestones) = 3
  /\ Len(project.Milestones) = 2
  /\ Range(DictKeys(project.Milestones)) \subseteq HeldTitles

\* C20: the document of an issue whose item carries a fixVersion holds a
\* milestone field, equal to the number the target gives to the milestone
\* of that title.
C20_MilestoneFieldOfFixVersion ==
  \A i \in DOMAIN SubmittedDocuments :
    LET doc == SubmittedDocuments[i]
        item == ItemOfKey(doc.jira_key)
    IN item.fixVersion # "" =>
         /\ "milestone" \in doc.data.issue.fields
         /\ doc.data.issue.milestone = GithubMilestoneNumber(item.fixVersion)

\* The milestone titles whose create request of this run was not answered 201:
\* their number was never stored (importer.py:104-107)
FailedMilestonePosts ==
  {t \in Range(milestone_posts) :
     DictGet(project.Milestones, t) # GithubMilestoneNumber(t)}

\* The label names whose create request of this run was not answered 201
FailedLabelPosts ==
  {label_posts[i].name : i \in {j \in DOMAIN label_posts :
                                  label_posts[j].status_code # 201}}

\* C21: in live mode every create-milestone and create-label request that is
\* answered with a non-2xx code is reported, and such an answer does not stop
\* the run: import_labels is not left by an exception, so that the remaining
\* labels are attempted and the issue import phase starts.
C21_FailedCreateReportedRunGoesOn ==
  ~config.dry_run =>
    /\ FailedMilestonePosts \subseteq failures_reported
    /\ FailedLabelPosts \subseteq failures_reported
    /\ (FailedMilestonePosts \cup FailedLabelPosts # {} => pc # "crashed")

StartsWith(s, prefix) ==
  Len(s) >= Len(prefix) /\ SubSeq(s, 1, Len(prefix)) = prefix

\* C22: add_item never raises, whichever optional elements the item lacks,
\* and the issue it appends has no priority label, no resolution label and
\* no epic link when the item has no priority, resolution or epic-link
\* custom field.
C22_AddItemCompletesWithoutOptionalFields ==
  [][ pc = "add_items" =>
        /\ pc' # "crashed"
        /\ Len(project'.Issues) > Len(project.Issues) =>
             LET issue == LastIssue(project')
                 item  == ItemOfKey(issue.key)
             IN /\ item.priority = "" =>
                     \A l \in Range(issue.labels) :
                       StartsWith(l, "priority:") => l \in Range(ConvertedLabels(config, item.labels))
                /\ item.resolution = "" =>
                     \A l \in Range(issue.labels) : ~StartsWith(l, "resolution:")
                /\ item.epic = "" => issue.epic_link = "" ]_vars

BlockKinds == {"code", "noformat", "panel:title", "panel"}

\* the kinds of the pieces of the text handed to _clean_html
KindsOfContent == {content[i].kind : i \in DOMAIN content}

\* the text with its mentions escaped and nothing else changed
MentionsEscaped == JoinLines([i \in DOMAIN content |-> content[i].escaped])

\* C24 as stated: for a text without code block, no-format block, titled
\* panel and untitled panel, _clean_html returns the text with each '@name'
\* escaped and otherwise unchanged, and _clean_html of that result is that
\* result.
C24_NoBlockOnlyMentionsEscaped ==
  (pc = "clean_html" /\ KindsOfContent \cap BlockKinds = {}) =>
     /\ Len(returned) >= 1 => returned[1] = MentionsEscaped
     /\ Len(returned) >= 2 => returned[2] = returned[1]

\* C24 amended: for a text without code block, no-format block, titled panel
\* and untitled panel, and without named HTML entity and without run of
\* eight spaces, _clean_html returns the text with each '@name' escaped and
\* otherwise unchanged, and _clean_html of that result is that result.
C24_CleanTextOnlyMentionsEscaped ==
  (pc = "clean_html" /\ KindsOfContent \subseteq {"plain", "mention"}) =>
     /\ Len(returned) >= 1 => returned[1] = MentionsEscaped
     /\ Len(returned) >= 2 => returned[2] = returned[1]

\* a text with a mention and a line without was cleaned twice
C24_Witness ==
  /\ pc = "clean_html"
  /\ Len(returned) = 2
  /\ KindsOfContent = {"plain", "mention"}
  /\ returned[1] # JoinLines([i \in DOMAIN content |-> content[i].text])

\* C25: get_colour returns a colour for every label, the same at every call:
\* 'ddf4dd' for 'jira-type:epic', '7bc043' for the other 'jira-type:' labels,
\* 'ee4035' for 'bug' and 'ededed' for every other label.
C25_GetColourTotal ==
  pc = "get_colour" =>
    \A i \in DOMAIN returned :
      returned[i] = (IF label_name = "jira-type:epic" THEN "ddf4dd"
                     ELSE IF StartsWith(label_name, "jira-type:") THEN "7bc043"
                     ELSE IF label_name = "bug" THEN "ee4035"
                     ELSE "ededed")

\* C26: no two issues of the corpus carry the same source key, and neither
\* do two lines of the text mapping file nor two mapping records of the run.
C26_SourceKeysUnique ==
  /\ NoDuplicates([i \in DOMAIN project.Issues |-> project.Issues[i].key])
  /\ NoDuplicates([i \in DOMAIN txt_mapping |-> txt_mapping[i][1]])
  /\ NoDuplicates([i \in DOMAIN issue_mappings |-> issue_mappings[i].jira_issue_key])

\* The submitted issues whose status category is the configured done id
ClosedSubmitted ==
  {i \in DOMAIN SubmittedSeq :
     ItemOfKey(SubmittedSeq[i]).statusCategory = doneStatusCategoryId}

\* C27: at the end of a dry run the index counts as 'Closed' the submitted
\* issues whose status category is the configured done identifier, and as
\* 'Open' the others; the state of each index entry is that of its issue.
C27_IndexStateMatchesClosedFlag ==
  (config.dry_run /\ pc = "done") =>
     /\ _generate_index_markdown(dry_run_index_data).closed_issues
          = Cardinality(ClosedSubmitted)
     /\ _generate_index_markdown(dry_run_index_data).open_issues
          = Len(SubmittedSeq) - Cardinality(ClosedSubmitted)
     /\ \A i \in DOMAIN dry_run_index_data :
          dry_run_index_data[i].state
            = (IF dry_run_files[i][2].issue.closed THEN "closed" ELSE "open")

\* The keys the description and the comments of an item name
KeysOfText(text) == text.bare \cup text.urls \cup text.kept

KeysReferredTo(item) ==
  KeysOfText(item.description)
  \cup FlattenSets([i \in DOMAIN item.comments |-> KeysOfText(item.comments[i])])

\* C28: the in-body and in-comments reference sets of a mapping record hold
\* only keys of other issues that the description or the comments of the item
\* name: never the key of the issue itself, and nothing at all when the
\* description, the comments and the links of the item name no other issue.
C28_ReferenceSetsNameOtherIssues ==
  \A i \in DOMAIN issue_mappings :
    LET m == issue_mappings[i]
        item == ItemOfKey(m.jira_issue_key)
        references == m.jira_links_in_body \cup m.jira_links_in_comments
        linked == Range(LinksOf(item.issuelinks)) \cup ({item.epic} \ {""})
    IN /\ m.jira_issue_key \notin references
       /\ references \subseteq KeysReferredTo(item) \ {m.jira_issue_key}
       /\ (KeysReferredTo(item) \cup linked) \ {m.jira_issue_key} = {} => references = {}

\* The keys of the records the JSON mapping file holds
JsonMappingKeys ==
  IF json_mapping.written
    THEN {json_mapping.content[i].jira_issue_key : i \in DOMAIN json_mapping.content}
    ELSE {}

\* C29: when the run has ended, at the last issue or at a fatal answer for a
\* later issue, the JSON mapping file holds the mapping record of every issue
\* imported in the run, that is of every line of the text mapping file.
C29_JsonMappingHoldsEveryImported ==
  pc \in {"done", "fatal"} =>
    \A i \in DOMAIN txt_mapping : txt_mapping[i][1] \in JsonMappingKeys

\* The label names import_labels creates, or would create, for the corpus
ProvisionedLabels ==
  {prefixed_lkey(config, project, lkey) :
     lkey \in Range(DictKeys(get_all_labels(project)))} \ {NoLabel}

\* C30: every label of a submitted document is a name import_labels creates
\* (in dry-run: would create) for the corpus of the run.
C30_IssueLabelsAreProvisioned ==
  pc \in {"uploaded", "wait"} =>
    Range(current.issue.labels) \subseteq ProvisionedLabels

====
